---------------------------- MODULE Spec2Model ----------------------------
(***************************************************************************)
(* Connection, transaction and workflow sequencing of snowforge.           *)
(*                                                                         *)
(*   Spec        src/src/snowforge/forge.py : Forge, WorkflowBuilder       *)
(*   SpecLegacy  src/src/forge.py           : Forge, WorkflowBuilder       *)
(*   SpecTM      src/src/snowforge/forge.py : TransactionManager           *)
(*   SpecEntity  src/src/snowforge/*.py, src/src/stage.py : the builders,  *)
(*               the entities they build and the SQL text of to_sql()      *)
(*   SpecUtilities  src/src/snowforge/utilities.py : escaping and quoting  *)
(*                                                                         *)
(* The warehouse connector is the environment: every call made on an open  *)
(* connection either returns or raises, a call made on a closed connection *)
(* raises.  A connection counts as closed from the moment close() has been *)
(* called on it, whether or not close() raised.  cursor.close() does not   *)
(* raise.                                                                  *)
(***************************************************************************)
EXTENDS Integers, Sequences, FiniteSets, TLC

\* Longest step queue a WorkflowBuilder accumulates in the model.
MaxSteps == 2

\* Connection objects the connector can hand out during one operation.
Conns == 1..(MaxSteps + 1)

\* The operation kinds of WorkflowStep.step_type, each the name of a Forge method.
StepTypes ==
    {"create_table", "create_stage", "create_file_format", "create_stream",
     "create_task", "put_file", "copy_into"}

VARIABLES
    _conn,          \* Forge._conn: the connection held, 0 for None
    _session_id,    \* Forge._session_id, 0 for None
    connState,      \* connector side: each connection object "unopened", "open" or "closed"
    steps,          \* WorkflowBuilder.steps
    stack,          \* the call stack of transaction scopes of the running operation
    log,            \* the connector calls of the current (or last) operation, in order
    exc,            \* the exception in flight or raised: the log index of the failed call, 0 for none
    orig,           \* the first exception raised in the operation, 0 for none
    op,             \* the current (or last) operation
    result,         \* "idle", "running", "returned" or "raised"
    used,           \* an operation that needs a connection has been started
    _transaction_level, \* TransactionManager._transaction_level
    tmStack,        \* the active TransactionManager.transaction() generators, outermost first
    tmLog,          \* the statements the TransactionManager executed, in order
    tmExc,          \* the exception propagating between scopes, NoErr for none
    tmRetried,      \* the exceptions transaction() has retried on since the outermost call
    tmResult,       \* how the outermost transaction() scope ended
    cls,            \* the class of the builder in hand, "" before any was created
    builder,        \* the builder's attributes, by name
    heap,           \* the mutable lists and dicts the builder created, by reference
    entity,         \* the attributes of the entity the last build() returned, NoEntity before
    calls,          \* the setter calls made on the builder, in order
    failure,        \* the message of the ValueError the last call raised, "" for none
    rendered,       \* what to_sql() returned for the entity, NoSql before it was called
    utilFn,         \* the function of utilities.py called last, "" before any call
    utilArg,        \* the str passed to it
    utilRet         \* the str it returned

forgeVars == <<_conn, _session_id, connState, steps, stack, log, exc, orig, op, result, used>>
tmVars == <<_transaction_level, tmStack, tmLog, tmExc, tmRetried, tmResult>>
entVars == <<cls, builder, heap, entity, calls, failure, rendered>>
utilVars == <<utilFn, utilArg, utilRet>>
vars == <<forgeVars, tmVars, entVars, utilVars>>

NoErr == [kind |-> "none", errno |-> 0]

----------------------------------------------------------------------------
(* Shared helpers                                                          *)

WorkflowStep(t) == [step_type |-> t, object |-> t]

Top == stack[Len(stack)]

Idle == stack = <<>>

\* The workflow step whose Forge method is running, 0 outside of any.
CurStep == IF Idle THEN 0 ELSE Top.step

Entry(stmt, c, ok, sql) == [stmt |-> stmt, conn |-> c, ok |-> ok, sql |-> sql, step |-> CurStep]

\* What a connector call on connection c can do: TRUE returns, FALSE raises.
Outcomes(c) == IF connState[c] = "open" THEN BOOLEAN ELSE {FALSE}

\* The connection object a successful connect() returns.
FreshConn == CHOOSE c \in Conns : connState[c] = "unopened" /\ \A d \in Conns : d < c => connState[d] # "unopened"

CanConnect == \E c \in Conns : connState[c] = "unopened"

\* Closed connection objects of earlier operations are garbage: nothing refers to them.
Collected ==
    [c \in Conns |-> IF connState[c] = "closed" /\ c # _conn THEN "unopened" ELSE connState[c]]

SetTop(f) == [stack EXCEPT ![Len(stack)] = f]

Frame(fn, sql, pc, step) == [fn |-> fn, pc |-> pc, cur |-> 0, i |-> 1, sql |-> sql, step |-> step]

\* The first exception of the operation.
FirstExc(e) == IF orig = 0 THEN e ELSE orig

InitForge ==
    /\ _conn = 0
    /\ _session_id = 0
    /\ connState = [c \in Conns |-> "unopened"]
    /\ steps = <<>>
    /\ stack = <<>>
    /\ log = <<>>
    /\ exc = 0
    /\ orig = 0
    /\ op = "none"
    /\ result = "idle"
    /\ used = FALSE

InitTM ==
    /\ _transaction_level = 0
    /\ tmStack = <<>>
    /\ tmLog = <<>>
    /\ tmExc = NoErr
    /\ tmRetried = {}
    /\ tmResult = "idle"

\* No entity was built yet.
NoEntity == [cls |-> "", attrs |-> <<>>]

\* to_sql() was not called yet.
NoSql == <<"None">>

InitEntity ==
    /\ cls = ""
    /\ builder = <<>>
    /\ heap = <<>>
    /\ entity = NoEntity
    /\ calls = <<>>
    /\ failure = ""
    /\ rendered = NoSql

\* No function of utilities.py was called.
InitUtilities ==
    /\ utilFn = ""
    /\ utilArg = <<>>
    /\ utilRet = <<>>

Init == InitForge /\ InitTM /\ InitEntity /\ InitUtilities

----------------------------------------------------------------------------
(* WorkflowBuilder: the step queue (the same in both forge.py)             *)

AddStep(t) ==
    /\ Idle
    /\ op = "none"
    /\ Len(steps) < MaxSteps
    /\ steps' = Append(steps, WorkflowStep(t))
    /\ UNCHANGED <<_conn, _session_id, connState, stack, log, exc, orig, op, result, used, tmVars, entVars, utilVars>>

create_table == AddStep("create_table")

create_stage == AddStep("create_stage")

create_file_format == AddStep("create_file_format")

create_stream == AddStep("create_stream")

create_task == AddStep("create_task")

put_file == AddStep("put_file")

copy_into == AddStep("copy_into")

\* A public operation starts: a new call stack with one transaction scope.
StartOp(name, sql, pc) ==
    /\ Idle
    /\ _conn # 0 \/ CanConnect
    /\ stack' = <<Frame(name, sql, pc, 0)>>
    /\ log' = <<>>
    /\ exc' = 0
    /\ orig' = 0
    /\ op' = name
    /\ result' = "running"
    /\ used' = TRUE
    /\ connState' = Collected
    /\ UNCHANGED <<_conn, _session_id, steps, tmVars, entVars, utilVars>>

\* The frame popped: its caller goes on, or the operation ends.
\* A raised exception reaches the enclosing transaction scope at its yield.
Unwind(raised) ==
    LET rest == SubSeq(stack, 1, Len(stack) - 1)
        parent == rest[Len(rest)]
    IN  IF rest = <<>>
        THEN /\ stack' = <<>>
             /\ result' = IF raised THEN "raised" ELSE "returned"
        ELSE /\ stack' = [rest EXCEPT ![Len(rest)] =
                            IF raised THEN [parent EXCEPT !.pc = "rollback"]
                                      ELSE [parent EXCEPT !.i = @ + 1]]
             /\ UNCHANGED result

----------------------------------------------------------------------------
(* Forge of src/src/snowforge/forge.py                                     *)

\* Mutant of _cleanup: the session is aborted, the connection neither closed nor dropped.
_cleanup_keeps_connection(l, abortOk, closeOk) ==
    /\ log' = IF _conn # 0 /\ _session_id # 0
              THEN Append(l, Entry("ABORT_SESSION", _conn, abortOk, ""))
              ELSE l
    /\ UNCHANGED <<connState, _conn, _session_id>>

\* Mutant of _cleanup: close() sits in the try block behind the abort, not in finally.
_cleanup_close_in_try(l, abortOk, closeOk) ==
    IF _conn # 0 /\ _session_id # 0
    THEN /\ log' = l \o <<Entry("ABORT_SESSION", _conn, abortOk, "")>>
                      \o (IF abortOk THEN <<Entry("CLOSE", _conn, closeOk, "")>> ELSE <<>>)
         /\ connState' = [connState EXCEPT ![_conn] = IF abortOk THEN "closed" ELSE @]
         /\ _conn' = 0
         /\ _session_id' = 0
    ELSE /\ log' = l
         /\ UNCHANGED <<connState, _conn, _session_id>>

\* Forge._cleanup, appending its connector calls to the log l.
_cleanup(l, abortOk, closeOk) ==
    IF _conn # 0 /\ _session_id # 0
    THEN /\ log' = l \o <<Entry("ABORT_SESSION", _conn, abortOk, ""),
                          Entry("CLOSE", _conn, closeOk, "")>>
         /\ connState' = [connState EXCEPT ![_conn] = "closed"]
         /\ _conn' = 0
         /\ _session_id' = 0
    ELSE /\ log' = l
         /\ UNCHANGED <<connState, _conn, _session_id>>

\* Forge.__exit__: the caller tears the Forge down.
Forge_exit ==
    /\ Idle
    /\ \E abortOk \in BOOLEAN, closeOk \in BOOLEAN : _cleanup(<<>>, abortOk, closeOk)
    /\ op' = "_cleanup"
    /\ result' = "returned"
    /\ exc' = 0
    /\ orig' = 0
    /\ UNCHANGED <<steps, stack, used, tmVars, entVars, utilVars>>

\* Mutant of NoConnection: get_connection connects on every call.
NoConnection_unchecked == TRUE

\* Forge.get_connection: "if not self._conn".
NoConnection == _conn = 0

\* Forge.get_connection up to its yield: connect unless a connection is held.
Forge_get_connection ==
    /\ ~Idle
    /\ Top.pc = "get_connection"
    /\ IF NoConnection
       THEN \E ok \in BOOLEAN :
              IF ok
              THEN /\ CanConnect
                   /\ connState' = [connState EXCEPT ![FreshConn] = "open"]
                   /\ _conn' = FreshConn
                   /\ _session_id' = FreshConn
                   /\ log' = Append(log, Entry("CONNECT", FreshConn, TRUE, ""))
                   /\ stack' = SetTop([Top EXCEPT !.pc = "begin", !.cur = FreshConn])
                   /\ UNCHANGED <<exc, orig, result>>
              ELSE /\ log' = Append(log, Entry("CONNECT", 0, FALSE, ""))
                   /\ exc' = Len(log')
                   /\ orig' = FirstExc(exc')
                   /\ Unwind(TRUE)
                   /\ UNCHANGED <<connState, _conn, _session_id>>
       ELSE /\ stack' = SetTop([Top EXCEPT !.pc = "begin", !.cur = _conn])
            /\ UNCHANGED <<connState, _conn, _session_id, log, exc, orig, result>>
    /\ UNCHANGED <<steps, op, used, tmVars, entVars, utilVars>>

\* One connector call of the top scope on its cursor: pc goes to okPc, or the call
\* raises and control goes to failPc with the exception in flight.
Execute(stmt, sql, okPc, failPc) ==
    \E ok \in Outcomes(Top.cur) :
        /\ log' = Append(log, Entry(stmt, Top.cur, ok, sql))
        /\ stack' = SetTop([Top EXCEPT !.pc = IF ok THEN okPc ELSE failPc])
        /\ exc' = IF ok THEN exc ELSE Len(log')
        /\ orig' = IF ok THEN orig ELSE FirstExc(Len(log'))

\* Forge.transaction: cursor.execute("BEGIN"), then the yield.
Forge_transaction_begin ==
    /\ ~Idle
    /\ Top.pc = "begin"
    /\ Execute("BEGIN", "", "body", "rollback")
    /\ UNCHANGED <<_conn, _session_id, connState, steps, op, result, used, tmVars, entVars, utilVars>>

\* Forge.execute_sql: the statement, inside the scope of its own transaction().
Forge_execute_sql ==
    /\ ~Idle
    /\ Top.fn = "execute_sql"
    /\ Top.pc = "body"
    /\ Execute("SQL", Top.sql, "commit", "rollback")
    /\ UNCHANGED <<_conn, _session_id, connState, steps, op, result, used, tmVars, entVars, utilVars>>

\* Mutant of WorkflowBuilder_execute_step: the queue is replayed from its end.
WorkflowBuilder_execute_step_reversed ==
    /\ ~Idle
    /\ Top.fn = "execute"
    /\ Top.pc = "body"
    /\ Top.i <= Len(steps)
    /\ stack' = Append(stack, Frame("execute_sql", steps[Len(steps) + 1 - Top.i].step_type,
                                    "get_connection", Top.i))
    /\ UNCHANGED <<_conn, _session_id, connState, steps, log, exc, orig, op, result, used, tmVars, entVars, utilVars>>

\* Mutant of WorkflowBuilder_execute_step: the step is taken off the queue as it is run.
WorkflowBuilder_execute_step_consuming ==
    /\ ~Idle
    /\ Top.fn = "execute"
    /\ Top.pc = "body"
    /\ Top.i <= Len(steps)
    /\ stack' = Append(stack, Frame("execute_sql", steps[Top.i].step_type, "get_connection", Top.i))
    /\ steps' = SubSeq(steps, 1, Top.i - 1) \o SubSeq(steps, Top.i + 1, Len(steps))
    /\ UNCHANGED <<_conn, _session_id, connState, log, exc, orig, op, result, used, tmVars, entVars, utilVars>>

\* WorkflowBuilder.execute: the loop calls the Forge method named by the next step.
WorkflowBuilder_execute_step ==
    /\ ~Idle
    /\ Top.fn = "execute"
    /\ Top.pc = "body"
    /\ Top.i <= Len(steps)
    /\ stack' = Append(stack, Frame("execute_sql", steps[Top.i].step_type, "get_connection", Top.i))
    /\ UNCHANGED <<_conn, _session_id, connState, steps, log, exc, orig, op, result, used, tmVars, entVars, utilVars>>

\* The body of the scope has completed.
BodyDone ==
    \/ Top.pc = "commit"
    \/ Top.fn = "execute" /\ Top.pc = "body" /\ Top.i > Len(steps)

\* Forge.transaction after the yield: cursor.execute("COMMIT"); the scope exits.
Forge_transaction_commit ==
    /\ ~Idle
    /\ BodyDone
    /\ \E ok \in Outcomes(Top.cur) :
        /\ log' = Append(log, Entry("COMMIT", Top.cur, ok, ""))
        /\ IF ok
           THEN /\ Unwind(FALSE)
                /\ UNCHANGED <<exc, orig>>
           ELSE /\ stack' = SetTop([Top EXCEPT !.pc = "rollback"])
                /\ exc' = Len(log')
                /\ orig' = FirstExc(Len(log'))
                /\ UNCHANGED result
    /\ UNCHANGED <<_conn, _session_id, connState, steps, op, used, tmVars, entVars, utilVars>>

\* Mutant of Forge_transaction_rollback: the except clause re-raises without ROLLBACK.
Forge_transaction_rollback_absent ==
    /\ ~Idle
    /\ Top.pc = "rollback"
    /\ stack' = SetTop([Top EXCEPT !.pc = "cleanup"])
    /\ UNCHANGED <<_conn, _session_id, connState, steps, log, exc, orig, op, result, used, tmVars, entVars, utilVars>>

\* Forge.transaction, except Exception: ROLLBACK, its own failure logged and dropped.
Forge_transaction_rollback ==
    /\ ~Idle
    /\ Top.pc = "rollback"
    /\ \E ok \in Outcomes(Top.cur) :
        /\ log' = Append(log, Entry("ROLLBACK", Top.cur, ok, ""))
        /\ stack' = SetTop([Top EXCEPT !.pc = "cleanup"])
    /\ UNCHANGED <<_conn, _session_id, connState, steps, exc, orig, op, result, used, tmVars, entVars, utilVars>>

\* Forge.get_connection, except Exception: _cleanup(), then the same exception again.
Forge_get_connection_except ==
    /\ ~Idle
    /\ Top.pc = "cleanup"
    /\ \E abortOk \in BOOLEAN, closeOk \in BOOLEAN : _cleanup(log, abortOk, closeOk)
    /\ Unwind(TRUE)
    /\ UNCHANGED <<steps, exc, orig, op, used, tmVars, entVars, utilVars>>

\* WorkflowBuilder.execute is called.
WorkflowBuilder_execute == StartOp("execute", "", "get_connection")

\* A Forge method (create_table, ..., copy_into) is called directly: execute_sql.
Forge_method == \E t \in StepTypes : StartOp("execute_sql", t, "get_connection")

Next ==
    \/ create_table
    \/ create_stage
    \/ create_file_format
    \/ create_stream
    \/ create_task
    \/ put_file
    \/ copy_into
    \/ WorkflowBuilder_execute
    \/ Forge_method
    \/ Forge_exit
    \/ Forge_get_connection
    \/ Forge_transaction_begin
    \/ Forge_execute_sql
    \/ WorkflowBuilder_execute_step
    \/ Forge_transaction_commit
    \/ Forge_transaction_rollback
    \/ Forge_get_connection_except

Spec == Init /\ [][Next]_vars

----------------------------------------------------------------------------
(* Forge of src/src/forge.py                                               *)

\* Forge.connection up to its yield: connect unless a connection is held.
Legacy_connection ==
    /\ ~Idle
    /\ Top.pc = "connection"
    /\ IF _conn = 0
       THEN \E ok \in BOOLEAN :
              IF ok
              THEN /\ CanConnect
                   /\ connState' = [connState EXCEPT ![FreshConn] = "open"]
                   /\ _conn' = FreshConn
                   /\ log' = Append(log, Entry("CONNECT", FreshConn, TRUE, ""))
                   /\ stack' = SetTop([Top EXCEPT !.pc = "body", !.cur = FreshConn])
                   /\ UNCHANGED <<exc, orig, result>>
              ELSE /\ log' = Append(log, Entry("CONNECT", 0, FALSE, ""))
                   /\ exc' = Len(log')
                   /\ orig' = FirstExc(exc')
                   /\ Unwind(TRUE)
                   /\ UNCHANGED <<connState, _conn>>
       ELSE /\ stack' = SetTop([Top EXCEPT !.pc = "body", !.cur = _conn])
            /\ UNCHANGED <<connState, _conn, log, exc, orig, result>>
    /\ UNCHANGED <<_session_id, steps, op, used, tmVars, entVars, utilVars>>

\* Forge.connection, finally: close the connection held and forget it.  An exception
\* of close() leaves _conn set and replaces the exception in flight.
Legacy_connection_finally ==
    /\ ~Idle
    /\ Top.pc = "release"
    /\ IF _conn # 0
       THEN \E ok \in BOOLEAN :
              /\ log' = Append(log, Entry("CLOSE", _conn, ok, ""))
              /\ connState' = [connState EXCEPT ![_conn] = "closed"]
              /\ _conn' = IF ok THEN 0 ELSE _conn
              /\ exc' = IF ok THEN exc ELSE Len(log')
              /\ orig' = IF ok THEN orig ELSE FirstExc(Len(log'))
       ELSE UNCHANGED <<log, connState, _conn, exc, orig>>
    /\ Unwind(exc' # 0)
    /\ UNCHANGED <<_session_id, steps, op, used, tmVars, entVars, utilVars>>

\* Forge.execute_sql: the statement, inside the scope of its own connection().
Legacy_execute_sql ==
    /\ ~Idle
    /\ Top.fn = "execute_sql"
    /\ Top.pc = "body"
    /\ Execute("SQL", Top.sql, "release", "release")
    /\ UNCHANGED <<_conn, _session_id, connState, steps, op, result, used, tmVars, entVars, utilVars>>

\* WorkflowBuilder.execute: the loop calls the Forge method named by the next step.
Legacy_execute_step ==
    /\ ~Idle
    /\ Top.fn = "execute"
    /\ Top.pc = "body"
    /\ Top.i <= Len(steps)
    /\ stack' = Append(stack, Frame("execute_sql", steps[Top.i].step_type, "connection", Top.i))
    /\ UNCHANGED <<_conn, _session_id, connState, steps, log, exc, orig, op, result, used, tmVars, entVars, utilVars>>

\* Forge.transaction after the yield: conn.commit().
Legacy_transaction_commit ==
    /\ ~Idle
    /\ Top.fn = "execute"
    /\ Top.pc = "body"
    /\ Top.i > Len(steps)
    /\ Execute("COMMIT", "", "release", "rollback")
    /\ UNCHANGED <<_conn, _session_id, connState, steps, op, result, used, tmVars, entVars, utilVars>>

\* Forge.transaction, except Exception: conn.rollback(), whose own exception replaces
\* the one being handled.
Legacy_transaction_rollback ==
    /\ ~Idle
    /\ Top.pc = "rollback"
    /\ \E ok \in Outcomes(Top.cur) :
        /\ log' = Append(log, Entry("ROLLBACK", Top.cur, ok, ""))
        /\ exc' = IF ok THEN exc ELSE Len(log')
        /\ stack' = SetTop([Top EXCEPT !.pc = "release"])
    /\ UNCHANGED <<_conn, _session_id, connState, steps, orig, op, result, used, tmVars, entVars, utilVars>>

Legacy_WorkflowBuilder_execute == StartOp("execute", "", "connection")

Legacy_Forge_method == \E t \in StepTypes : StartOp("execute_sql", t, "connection")

NextLegacy ==
    \/ create_table
    \/ create_stage
    \/ create_file_format
    \/ create_stream
    \/ create_task
    \/ put_file
    \/ copy_into
    \/ Legacy_WorkflowBuilder_execute
    \/ Legacy_Forge_method
    \/ Legacy_connection
    \/ Legacy_execute_sql
    \/ Legacy_execute_step
    \/ Legacy_transaction_commit
    \/ Legacy_transaction_rollback
    \/ Legacy_connection_finally

SpecLegacy == Init /\ [][NextLegacy]_vars

----------------------------------------------------------------------------
(* TransactionManager of src/src/snowforge/forge.py                        *)
(*                                                                         *)
(* transaction() is a generator under contextlib.contextmanager: __enter__ *)
(* runs it to its first yield, __exit__ resumes it (the body returned) or  *)
(* throws the body's exception into it at the yield.  A generator that     *)
(* yields a second time makes __exit__ raise RuntimeError and is closed    *)
(* where it stands.                                                        *)

\* TransactionManager.__init__: the default of max_retries.
max_retries == 3

\* Deepest nesting of transaction() scopes in the model.
MaxDepth == 2

\* Most transaction() calls made under one outermost scope in the model.
MaxCalls == 2

\* Highest _transaction_level at which the model starts an outermost scope.
MaxLevel == 2

retryable_codes == {250001, 250002, 90100}

\* The exceptions a statement or a body raises in the model: ProgrammingError with a
\* transient or a permanent errno, and an exception of another class.
Errors ==
    [kind : {"ProgrammingError"}, errno : retryable_codes \cup {1003}]
        \cup {[kind |-> "OperationalError", errno |-> 250001]}

RuntimeError == [kind |-> "RuntimeError", errno |-> 0]

\* In tmLog: a statement that raised (which exception it raised is in tmExc or tmRetried).
Failed == [kind |-> "failed", errno |-> 0]

Mark(r) == IF r = NoErr THEN NoErr ELSE Failed

\* Mutant of _is_retryable: every ProgrammingError is retried, whatever its code.
_is_retryable_any_code(error) == error.kind = "ProgrammingError"

_is_retryable(error) ==
    error.kind = "ProgrammingError" /\ error.errno \in retryable_codes

TmTop == tmStack[Len(tmStack)]

TmEvent(ev, err, n) == [ev |-> ev, err |-> err, n |-> n]

TmCalls == Cardinality({k \in 1..Len(tmLog) : tmLog[k].ev = "ENTER"})

\* The generator finishes (returns or raises e): the scope is left.
TmLeave(l, e) ==
    /\ tmStack' = SubSeq(tmStack, 1, Len(tmStack) - 1)
    /\ tmExc' = e
    /\ tmLog' = IF e = NoErr THEN l ELSE Append(l, TmEvent("RAISE", e, TmTop.retry_count))
    /\ tmResult' = IF Len(tmStack) > 1 THEN tmResult
                   ELSE IF e = NoErr THEN "returned" ELSE "raised"

\* The generator reaches its yield: the body starts, or, when it had yielded before,
\* contextlib raises RuntimeError and closes it.
TmYield(l, level) ==
    /\ _transaction_level' = level
    /\ UNCHANGED tmRetried
    /\ IF TmTop.entered
       THEN TmLeave(l, RuntimeError)
       ELSE /\ tmStack' = [tmStack EXCEPT ![Len(tmStack)] = [@ EXCEPT !.pc = "yield", !.entered = TRUE]]
            /\ tmLog' = l
            /\ UNCHANGED <<tmExc, tmResult>>

\* The except clauses of transaction(), entered with exception e.
TmExcept(l, e) ==
    IF e.kind = "ProgrammingError"
    THEN /\ _transaction_level' = IF _transaction_level > 0 THEN _transaction_level - 1
                                                             ELSE _transaction_level
         /\ IF TmTop.retry_count < max_retries /\ _is_retryable(e)
            THEN /\ tmStack' = [tmStack EXCEPT ![Len(tmStack)] =
                                  [@ EXCEPT !.pc = "top", !.retry_count = @ + 1]]
                 /\ tmLog' = Append(l, TmEvent("RETRY", Failed, TmTop.retry_count + 1))
                 /\ tmRetried' = tmRetried \cup {e}
                 /\ tmExc' = NoErr
                 /\ UNCHANGED tmResult
            ELSE TmLeave(l, e) /\ UNCHANGED tmRetried
    ELSE IF _transaction_level > 0
         THEN /\ _transaction_level' = 0
              /\ \E rb \in {NoErr, Failed} :
                    TmLeave(Append(l, TmEvent("ROLLBACK", rb, _transaction_level)), e)
              /\ UNCHANGED tmRetried
         ELSE /\ UNCHANGED <<_transaction_level, tmRetried>>
              /\ TmLeave(l, e)

\* with tm.transaction(): the call that creates the generator.
TM_transaction ==
    /\ \/ /\ tmStack = <<>>
          /\ _transaction_level < MaxLevel
          /\ tmLog' = <<TmEvent("ENTER", NoErr, 1)>>
          /\ tmRetried' = {}
          /\ tmExc' = NoErr
          /\ tmResult' = "running"
       \/ /\ tmStack # <<>>
          /\ TmTop.pc = "yield"
          /\ tmExc = NoErr
          /\ Len(tmStack) < MaxDepth
          /\ TmCalls < MaxCalls
          /\ tmLog' = Append(tmLog, TmEvent("ENTER", NoErr, Len(tmStack) + 1))
          /\ UNCHANGED <<tmResult, tmRetried, tmExc>>
    /\ tmStack' = Append(tmStack, [retry_count |-> 0, pc |-> "top", entered |-> FALSE])
    /\ UNCHANGED <<_transaction_level, forgeVars, entVars, utilVars>>

\* The try block from the top of the loop to the yield.
TM_transaction_try ==
    /\ tmStack # <<>>
    /\ TmTop.pc = "top"
    /\ IF _transaction_level = 0
       THEN \E r \in {NoErr} \cup Errors :
              LET l == Append(tmLog, TmEvent("BEGIN TRANSACTION", Mark(r), _transaction_level))
              IN  IF r = NoErr THEN TmYield(l, _transaction_level + 1) ELSE TmExcept(l, r)
       ELSE TmYield(tmLog, _transaction_level + 1)
    /\ UNCHANGED <<forgeVars, entVars, utilVars>>

\* Mutant of TM_transaction_resume: COMMIT is executed at every level, not at 1 only.
TM_transaction_resume_commits_every_level ==
    /\ tmStack # <<>>
    /\ TmTop.pc = "yield"
    /\ tmExc = NoErr
    /\ IF _transaction_level >= 1
       THEN \E r \in {NoErr} \cup Errors :
              LET l == Append(tmLog, TmEvent("COMMIT", Mark(r), _transaction_level))
              IN  IF r = NoErr
                  THEN /\ _transaction_level' = _transaction_level - 1
                       /\ TmLeave(l, NoErr)
                       /\ UNCHANGED tmRetried
                  ELSE TmExcept(l, r)
       ELSE /\ _transaction_level' = _transaction_level - 1
            /\ TmLeave(tmLog, NoErr)
            /\ UNCHANGED tmRetried
    /\ UNCHANGED <<forgeVars, entVars, utilVars>>

\* The body returns: the generator resumes after its yield.
TM_transaction_resume ==
    /\ tmStack # <<>>
    /\ TmTop.pc = "yield"
    /\ tmExc = NoErr
    /\ IF _transaction_level = 1
       THEN \E r \in {NoErr} \cup Errors :
              LET l == Append(tmLog, TmEvent("COMMIT", Mark(r), _transaction_level))
              IN  IF r = NoErr
                  THEN /\ _transaction_level' = _transaction_level - 1
                       /\ TmLeave(l, NoErr)
                       /\ UNCHANGED tmRetried
                  ELSE TmExcept(l, r)
       ELSE /\ _transaction_level' = _transaction_level - 1
            /\ TmLeave(tmLog, NoErr)
            /\ UNCHANGED tmRetried
    /\ UNCHANGED <<forgeVars, entVars, utilVars>>

\* The body raises e: the exception is thrown into the generator at its yield.
TM_transaction_throw ==
    /\ tmStack # <<>>
    /\ TmTop.pc = "yield"
    /\ \/ tmExc = NoErr /\ \E e \in Errors : TmExcept(Append(tmLog, TmEvent("BODY", Failed, Len(tmStack))), e)
       \/ tmExc # NoErr /\ TmExcept(tmLog, tmExc)
    /\ UNCHANGED <<forgeVars, entVars, utilVars>>

\* The body of the enclosing scope catches the exception of an inner scope.
TM_body_catches ==
    /\ tmStack # <<>>
    /\ TmTop.pc = "yield"
    /\ tmExc # NoErr
    /\ tmExc' = NoErr
    /\ UNCHANGED <<_transaction_level, tmStack, tmLog, tmRetried, tmResult, forgeVars, entVars, utilVars>>

NextTM ==
    \/ TM_transaction
    \/ TM_transaction_try
    \/ TM_transaction_resume
    \/ TM_transaction_throw
    \/ TM_body_catches

SpecTM == Init /\ [][NextTM]_vars

----------------------------------------------------------------------------
(* Properties of Forge and WorkflowBuilder                                 *)

\* The positions in the log of the calls of statement kind k.
Calls(k) == {j \in 1..Len(log) : log[j].stmt = k}

\* The statements of the steps submitted so far, in the order of submission.
IsSql(e) == e.stmt = "SQL"

Submitted == SelectSeq(log, IsSql)

Finished == result \in {"returned", "raised"}

\* The workflow raised because the Forge method of step k raised.
StepFailed(k) ==
    /\ op = "execute"
    /\ result = "raised"
    /\ orig # 0
    /\ log[orig].step = k

\* C1: when step k >= 2 of a workflow of n >= 2 steps fails, no COMMIT has been
\* issued on the connection by the time the error leaves execute().
C1_NoCommitBeforeFailure ==
    \A k \in 2..Len(steps) : StepFailed(k) => Calls("COMMIT") = {}

\* C2: execute() submits the statements of the steps in insertion order, each once;
\* after a failure nothing more is submitted, and the first error is the one raised.
C2_StepsInOrderNoSkip ==
    op = "execute" =>
        /\ Len(Submitted) <= Len(steps)
        /\ \A k \in 1..Len(Submitted) :
              /\ Submitted[k].sql = steps[k].step_type
              /\ Submitted[k].step = k
              /\ ~Submitted[k].ok => k = Len(Submitted)
        /\ orig # 0 => \A j \in Calls("SQL") : j <= orig
        /\ result = "returned" =>
              /\ orig = 0
              /\ Len(Submitted) = Len(steps)
              /\ \A k \in 1..Len(Submitted) : Submitted[k].ok
        /\ (Finished /\ orig # 0) => (result = "raised" /\ exc = orig)

\* C2 witness: the first of two queued steps failed, the second was never submitted.
C2_Witness ==
    /\ StepFailed(1)
    /\ Len(steps) = 2
    /\ log[orig].stmt = "SQL"
    /\ Len(Submitted) = 1

\* C3: one execute() issues exactly one BEGIN, and issues it before the first
\* statement of a step.
C3_ExactlyOneBegin ==
    (op = "execute" /\ result = "returned") =>
        /\ Cardinality(Calls("BEGIN")) = 1
        /\ \A j \in Calls("SQL") : \E b \in Calls("BEGIN") : b < j

\* The calls of the outermost transaction() scope of the operation.
Outer(k) == {j \in Calls(k) : log[j].step = 0}

\* The body of the outermost scope raised: a statement of a direct execute_sql, or
\* the Forge method of a workflow step.
BodyRaised == orig # 0 /\ (log[orig].stmt = "SQL" \/ log[orig].step > 0)

\* C4: in a transaction() scope BEGIN precedes the body; a body that completes is
\* followed by COMMIT; a body that raises is followed by ROLLBACK, by no COMMIT, and
\* the same exception is raised to the caller.
C4_BeginCommitRollback ==
    op \in {"execute", "execute_sql"} =>
        /\ \A j \in 1..Len(log) :
              (log[j].stmt = "SQL" \/ log[j].step > 0) =>
                  \E b \in Outer("BEGIN") : b < j /\ log[b].ok
        /\ result = "returned" =>
              /\ Len(log) \in Outer("COMMIT")
              /\ log[Len(log)].ok
              /\ Outer("ROLLBACK") = {}
        /\ BodyRaised => \A c \in Outer("COMMIT") : c < orig
        /\ (BodyRaised /\ Finished) =>
              /\ \E r \in Outer("ROLLBACK") : r > orig
              /\ result = "raised"
              /\ exc = orig

\* C4 witness: the statement of a direct execute_sql raised and the scope has exited.
C4_Witness ==
    /\ op = "execute_sql"
    /\ result = "raised"
    /\ BodyRaised
    /\ Outer("ROLLBACK") # {}

\* connect() raised: the operation never had a connection.
ConnectFailed == \E j \in Calls("CONNECT") : ~log[j].ok

NoLiveConnection == _conn = 0 /\ \A c \in Conns : connState[c] # "open"

\* C5 as claimed: whenever a transaction() scope has exited, by commit or by
\* rollback, the connection has been closed and the Forge holds none.
C5_AlwaysReleased ==
    (op \in {"execute", "execute_sql"} /\ Finished) => NoLiveConnection

\* C5 amended: a scope that exits by failure has attempted the session abort and the
\* close, and the Forge holds no connection; a scope that exits normally leaves the
\* connection open and held by the Forge.
C5_ReleasedOnFailureOnly ==
    (op \in {"execute", "execute_sql"} /\ Finished) =>
        /\ result = "raised" =>
              /\ NoLiveConnection
              /\ _session_id = 0
              /\ ~ConnectFailed =>
                    \E a \in Calls("ABORT_SESSION") : \E c \in Calls("CLOSE") :
                        /\ orig < a /\ a < c
                        /\ log[a].conn = log[c].conn
        /\ result = "returned" =>
              /\ _conn # 0
              /\ connState[_conn] = "open"
              /\ Calls("CLOSE") = {}

\* C5 witness: a scope exited by failure and its connection was closed.
C5_Witness ==
    /\ op = "execute_sql"
    /\ result = "raised"
    /\ BodyRaised
    /\ Calls("CLOSE") # {}
    /\ NoLiveConnection

\* C6: every call of one execute() goes to one and the same connection, and no second
\* connection is opened while the workflow executes.
C6_OneConnectionPerWorkflow ==
    op = "execute" =>
        /\ \A j, k \in 1..Len(log) :
              (log[j].conn # 0 /\ log[k].conn # 0) => log[j].conn = log[k].conn
        /\ Cardinality({j \in Calls("CONNECT") : log[j].ok}) <= 1

\* C7: a Forge owns at most one live connection, the one it holds, and opens none
\* before the first operation that needs one.
C7_AtMostOneLiveConnection ==
    /\ Cardinality({c \in Conns : connState[c] = "open"}) <= 1
    /\ \A c \in Conns : connState[c] = "open" => c = _conn
    /\ ~used => \A c \in Conns : connState[c] = "unopened"

\* C7 witness: the Forge method of a workflow step runs on the connection the
\* workflow's own scope opened.
C7_Witness ==
    /\ Len(stack) = 2
    /\ Top.pc = "body"
    /\ Top.cur = stack[1].cur
    /\ connState[Top.cur] = "open"

\* C10: the exception that leaves transaction(), execute_sql() or execute() is the
\* first one raised, whatever fails while it is being handled.
C10_OriginalErrorPropagates ==
    result = "raised" => exc = orig

----------------------------------------------------------------------------
(* Properties of TransactionManager                                        *)

TmEvents(ev) == {k \in 1..Len(tmLog) : tmLog[k].ev = ev}

\* The transient errors: a ProgrammingError with one of the three codes.
Transient(e) == e.kind = "ProgrammingError" /\ e.errno \in {250001, 250002, 90100}

\* C8: transaction() retries only on a ProgrammingError with code 250001, 250002 or
\* 90100, at most max_retries = 3 times per call, and lets such an error out only
\* when the three retries are used up.
C8_BoundedRetryOnTransientOnly ==
    /\ \A e \in tmRetried : Transient(e)
    /\ \A k \in 1..Len(tmStack) : tmStack[k].retry_count <= 3
    /\ \A k \in TmEvents("RETRY") : tmLog[k].n <= 3
    /\ \A k \in TmEvents("RAISE") : Transient(tmLog[k].err) => tmLog[k].n = 3

\* C8 witness: a transient error left transaction() after three retries.
C8_Witness ==
    /\ tmResult = "raised"
    /\ Transient(tmExc)
    /\ Cardinality(TmEvents("RETRY")) = 3
    /\ tmRetried # {}

\* C9: an error that is not retryable, raised by the body of a transaction() scope,
\* reaches the caller only after a ROLLBACK has been executed.
C9_RollbackBeforePropagation ==
    (/\ tmResult = "raised"
     /\ tmExc \in Errors
     /\ ~Transient(tmExc)
     /\ TmEvents("BODY") # {}) => TmEvents("ROLLBACK") # {}

----------------------------------------------------------------------------
(* Entities, their builders and their SQL text                             *)
(*                                                                         *)
(* A Python value is a record [t, v]: t its type, v its content.  A str is *)
(* the sequence of its characters.  SQL text is a sequence of atoms: the   *)
(* fixed words of the f-strings, and the characters of the caller's data.  *)

None == [t |-> "none", v |-> 0]

Bool(b) == [t |-> "bool", v |-> b]

Num(n) == [t |-> "int", v |-> n]

Str(s) == [t |-> "str", v |-> s]

\* A list of str.
List(l) == [t |-> "list", v |-> l]

\* A dict of str to str, as its items in insertion order.
Dict(d) == [t |-> "dict", v |-> d]

\* A member of an Enum class, by its value.
Enum(name) == [t |-> "enum", v |-> name]

\* An instance of a class of the package.
Obj(rec) == [t |-> "obj", v |-> rec]

\* A reference to a list or dict the builder holds.
Ref(i) == [t |-> "ref", v |-> i]

\* bool(x) of Python: what `if x:` tests.
Truthy(x) ==
    CASE x.t = "none" -> FALSE
      [] x.t = "bool" -> x.v
      [] x.t = "int" -> x.v # 0
      [] x.t \in {"str", "list", "dict"} -> x.v # <<>>
      [] OTHER -> TRUE

\* `x is not None`.
IsSet(x) == x.t # "none"

\* The attributes of an object with every reference followed.
Deep(attrs, h) ==
    [f \in DOMAIN attrs |-> IF attrs[f].t = "ref" THEN h[attrs[f].v] ELSE attrs[f]]

RECURSIVE join(_, _)
\* sep.join(parts)
join(sep, parts) ==
    IF parts = <<>> THEN <<>>
    ELSE IF Len(parts) = 1 THEN parts[1]
    ELSE parts[1] \o sep \o join(sep, Tail(parts))

RECURSIVE replace(_, _, _)
\* value.replace(char, replacement), char a single character.
replace(value, char, replacement) ==
    IF value = <<>> THEN <<>>
    ELSE (IF Head(value) = char THEN replacement ELSE <<Head(value)>>)
         \o replace(Tail(value), char, replacement)

Digits == <<"0", "1", "2", "3", "4", "5", "6", "7", "8", "9">>

RECURSIVE str_int(_)
\* str(n) of an int.
str_int(n) ==
    IF n < 0 THEN <<"-">> \o str_int(0 - n)
    ELSE IF n < 10 THEN <<Digits[n + 1]>>
    ELSE str_int(n \div 10) \o <<Digits[(n % 10) + 1]>>

\* str(value).upper() of a bool.
str_upper(value) == IF value THEN <<"TRUE">> ELSE <<"FALSE">>

\* The part appended under `if cond:`.
When(cond, part) == IF cond THEN <<part>> ELSE <<>>

\* [f"{k} = '{v}'" for k, v in d.items()]
ItemParts(d) == [i \in 1..Len(d) |-> d[i][1] \o <<" = ", "'">> \o d[i][2] \o <<"'">>]

\* [f"'{val}'" for val in l]
QuotedParts(l) == [i \in 1..Len(l) |-> <<"'">> \o l[i] \o <<"'">>]

\* chr(39), the single quote.
Quote == "'"

\* self.comment.replace(chr(39), chr(39)*2) between single quotes.
CommentLiteral(comment) == <<Quote>> \o replace(comment, Quote, <<Quote, Quote>>) \o <<Quote>>

\* The head of every CREATE statement but Task's: the two create-mode flags are
\* tested one after the other, the kind of object stands between them.
CreateHead(self, modifier, object) ==
    <<IF self.is_create_or_replace.v THEN <<"CREATE OR REPLACE">> ELSE <<"CREATE">>>>
    \o modifier
    \o <<<<object>>>>
    \o When(self.is_create_if_not_exists.v, <<"IF NOT EXISTS">>)

\* Mutant of Column.to_sql: UNIQUE is appended before PRIMARY KEY.
Column_to_sql_unique_first(self) ==
    join(<<" ">>,
         <<self.name.v>>
      \o <<IF self.data_type.t = "enum" THEN <<self.data_type.v>> ELSE self.data_type.v>>
      \o When(~self.nullable.v, <<"NOT NULL">>)
      \o When(Truthy(self.default), <<"DEFAULT", " ">> \o self.default.v)
      \o When(self.identity.v, <<"IDENTITY">>)
      \o When(self.unique.v, <<"UNIQUE">>)
      \o When(self.primary_key.v, <<"PRIMARY KEY">>)
      \o When(Truthy(self.foreign_key), <<"REFERENCES", " ">> \o self.foreign_key.v)
      \o When(Truthy(self.comment), <<"COMMENT", " ">> \o CommentLiteral(self.comment.v))
      \o When(Truthy(self.collate), <<"COLLATE", " ", Quote>> \o self.collate.v \o <<Quote>>))

\* Column.to_sql
Column_to_sql(self) ==
    join(<<" ">>,
         <<self.name.v>>
      \o <<IF self.data_type.t = "enum" THEN <<self.data_type.v>> ELSE self.data_type.v>>
      \o When(~self.nullable.v, <<"NOT NULL">>)
      \o When(Truthy(self.default), <<"DEFAULT", " ">> \o self.default.v)
      \o When(self.identity.v, <<"IDENTITY">>)
      \o When(self.primary_key.v, <<"PRIMARY KEY">>)
      \o When(self.unique.v, <<"UNIQUE">>)
      \o When(Truthy(self.foreign_key), <<"REFERENCES", " ">> \o self.foreign_key.v)
      \o When(Truthy(self.comment), <<"COMMENT", " ">> \o CommentLiteral(self.comment.v))
      \o When(Truthy(self.collate), <<"COLLATE", " ", Quote>> \o self.collate.v \o <<Quote>>))

\* f"WITH ... POLICY {policy.name} ON ({', '.join(policy.on)})"
PolicyPart(word, policy) ==
    <<word, " ">> \o policy.name \o <<" ON ", "(">> \o join(<<", ">>, policy.on) \o <<")">>

\* Table.to_sql
Table_to_sql(self) ==
    join(<<" ">>,
         CreateHead(self, When(self.table_type.v # "PERMANENT", <<self.table_type.v>>), "TABLE")
      \o <<self.name.v>>
      \o <<<<"(">> \o join(<<", ">>, [i \in 1..Len(self.columns.v) |-> Column_to_sql(self.columns.v[i])])
                   \o <<")">>>>
      \o When(Truthy(self.comment), <<"COMMENT", " = ">> \o CommentLiteral(self.comment.v))
      \o When(IsSet(self.data_retention_time_in_days),
              <<"DATA_RETENTION_TIME_IN_DAYS", " = ">> \o str_int(self.data_retention_time_in_days.v))
      \o When(IsSet(self.max_data_extension_time_in_days),
              <<"MAX_DATA_EXTENSION_TIME_IN_DAYS", " = ">> \o str_int(self.max_data_extension_time_in_days.v))
      \o When(IsSet(self.change_tracking),
              <<"CHANGE_TRACKING", " = ">> \o str_upper(self.change_tracking.v))
      \o When(Truthy(self.default_ddl_collation),
              <<"DEFAULT_DDL_COLLATION", " = ", Quote>> \o self.default_ddl_collation.v \o <<Quote>>)
      \o When(self.copy_grants.v, <<"COPY GRANTS">>)
      \o When(Truthy(self.cluster_by),
              <<"CLUSTER BY", " ", "(">> \o join(<<", ">>, self.cluster_by.v) \o <<")">>)
      \o When(Truthy(self.row_access_policy),
              PolicyPart("WITH ROW ACCESS POLICY", self.row_access_policy.v))
      \o When(Truthy(self.aggregation_policy),
              PolicyPart("WITH AGGREGATION POLICY", self.aggregation_policy.v))
      \o When(Truthy(self.tags),
              <<"WITH", " ">> \o
              join(<<" ">>, [i \in 1..Len(self.tags.v) |->
                                <<"TAG", " ", "(">> \o self.tags.v[i][1] \o <<" = ", Quote>>
                                \o self.tags.v[i][2] \o <<Quote, ")">>])))

\* Stream.to_sql
Stream_to_sql(self) ==
    join(<<" ">>,
         CreateHead(self, <<>>, "STREAM")
      \o <<self.name.v>>
      \o When(Truthy(self.tags),
              <<"WITH TAG", " ", "(">> \o join(<<", ">>, ItemParts(self.tags.v)) \o <<")">>)
      \o <<<<"ON TABLE", " ">> \o self.source.v>>
      \o When(self.append_only.v, <<"APPEND_ONLY", " = ", "TRUE">>)
      \o When(self.show_initial_rows.v, <<"SHOW_INITIAL_ROWS", " = ", "TRUE">>)
      \o When(Truthy(self.comment), <<"COMMENT", " = ">> \o CommentLiteral(self.comment.v)))

\* str.strip() for the blank characters of the model: spaces at both ends.
RECURSIVE strip(_)
strip(s) ==
    IF s = <<>> THEN <<>>
    ELSE IF Head(s) = " " THEN strip(Tail(s))
    ELSE IF s[Len(s)] = " " THEN strip(SubSeq(s, 1, Len(s) - 1))
    ELSE s

\* Schedule.to_sql
Schedule_to_sql(self) ==
    IF IsSet(self.interval_minutes)
    THEN <<Quote>> \o str_int(self.interval_minutes.v) \o <<" MINUTE", Quote>>
    ELSE IF Truthy(self.cron_expr) /\ Truthy(self.timezone)
    THEN <<Quote, "USING CRON", " ">> \o self.cron_expr.v \o <<" ">> \o strip(self.timezone.v) \o <<Quote>>
    ELSE <<>>

\* Task.to_sql
Task_to_sql(self) ==
    join(<<"\n">>,
         (IF self.is_create_or_replace.v
          THEN <<<<"CREATE OR REPLACE">>>>
          ELSE <<<<"CREATE">>>> \o When(self.is_create_if_not_exists.v, <<"IF NOT EXISTS">>))
      \o <<<<"TASK", " ">> \o self.name.v>>
      \o When(Truthy(self.tags),
              <<"WITH TAG", " ", "(">> \o join(<<", ">>, ItemParts(self.tags.v)) \o <<")">>)
      \o When(Truthy(self.warehouse), <<"WAREHOUSE", " = ">> \o self.warehouse.v)
      \o When(Truthy(self.warehouse_size),
              <<"USER_TASK_MANAGED_INITIAL_WAREHOUSE_SIZE", " = ", self.warehouse_size.v>>)
      \o (IF Truthy(self.schedule)
          THEN When(Schedule_to_sql(self.schedule.v) # <<>>,
                    <<"SCHEDULE", " = ">> \o Schedule_to_sql(self.schedule.v))
          ELSE <<>>)
      \o When(Truthy(self.config), <<"CONFIG", " = ", Quote>> \o self.config.v \o <<Quote>>)
      \o When(IsSet(self.allow_overlapping_execution),
              <<"ALLOW_OVERLAPPING_EXECUTION", " = ">> \o str_upper(self.allow_overlapping_execution.v))
      \o When(Truthy(self.session_parameters),
              <<"SESSION_PARAMETERS", " = ", "(">>
              \o join(<<", ">>, ItemParts(self.session_parameters.v)) \o <<")">>)
      \o When(IsSet(self.user_task_timeout_ms),
              <<"USER_TASK_TIMEOUT_MS", " = ">> \o str_int(self.user_task_timeout_ms.v))
      \o When(IsSet(self.suspend_task_after_num_failures),
              <<"SUSPEND_TASK_AFTER_NUM_FAILURES", " = ">>
              \o str_int(self.suspend_task_after_num_failures.v))
      \o When(Truthy(self.error_integration), <<"ERROR_INTEGRATION", " = ">> \o self.error_integration.v)
      \o When(Truthy(self.comment), <<"COMMENT", " = ">> \o CommentLiteral(self.comment.v))
      \o When(Truthy(self.finalize), <<"FINALIZE", " = ", Quote>> \o self.finalize.v \o <<Quote>>)
      \o When(IsSet(self.task_auto_retry_attempts),
              <<"TASK_AUTO_RETRY_ATTEMPTS", " = ">> \o str_int(self.task_auto_retry_attempts.v))
      \o When(IsSet(self.user_task_minimum_trigger_interval_in_seconds),
              <<"USER_TASK_MINIMUM_TRIGGER_INTERVAL_IN_SECONDS", " = ">>
              \o str_int(self.user_task_minimum_trigger_interval_in_seconds.v))
      \o When(Truthy(self.after), <<"AFTER", " ">> \o join(<<", ">>, self.after.v))
      \o When(Truthy(self.when), <<"WHEN", " ">> \o self.when.v)
      \o <<<<"AS">>>>
      \o <<strip(self.sql_statement.v)>>)

\* The part of a str option: f"NAME = '{value}'"
QuotedOption(self, field, word) ==
    When(Truthy(self[field]), <<word, " = ", Quote>> \o self[field].v \o <<Quote>>)

\* The part of a bool option: f"NAME = {str(value).upper()}"
BoolOption(self, field, word) ==
    When(IsSet(self[field]), <<word, " = ">> \o str_upper(self[field].v))

\* The part of an Enum option: f"NAME = {value}"
EnumOption(self, field, word) ==
    When(Truthy(self[field]), <<word, " = ", self[field].v>>)

\* The part of NULL_IF: its values quoted and joined.
NullIfOption(self) ==
    When(Truthy(self.null_if),
         <<"NULL_IF", " = ", "(">> \o join(<<", ">>, QuotedParts(self.null_if.v)) \o <<")">>)

\* AvroOptions.to_sql
AvroOptions_to_sql(self) ==
    join(<<" ">>,
         <<<<"TYPE", " = ", "AVRO">>>>
      \o EnumOption(self, "compression", "COMPRESSION")
      \o BoolOption(self, "trim_space", "TRIM_SPACE")
      \o BoolOption(self, "replace_invalid_characters", "REPLACE_INVALID_CHARACTERS")
      \o NullIfOption(self))

\* ParquetOptions.to_sql
ParquetOptions_to_sql(self) ==
    join(<<" ">>,
         <<<<"TYPE", " = ", "PARQUET">>>>
      \o EnumOption(self, "compression", "COMPRESSION")
      \o BoolOption(self, "binary_as_text", "BINARY_AS_TEXT")
      \o BoolOption(self, "use_logical_type", "USE_LOGICAL_TYPE")
      \o BoolOption(self, "trim_space", "TRIM_SPACE")
      \o BoolOption(self, "replace_invalid_characters", "REPLACE_INVALID_CHARACTERS")
      \o NullIfOption(self)
      \o BoolOption(self, "use_vectorized_scanner", "USE_VECTORIZED_SCANNER"))

\* JsonOptions.to_sql
JsonOptions_to_sql(self) ==
    join(<<" ">>,
         <<<<"TYPE", " = ", "JSON">>>>
      \o EnumOption(self, "compression", "COMPRESSION")
      \o QuotedOption(self, "date_format", "DATE_FORMAT")
      \o QuotedOption(self, "time_format", "TIME_FORMAT")
      \o QuotedOption(self, "timestamp_format", "TIMESTAMP_FORMAT")
      \o EnumOption(self, "binary_format", "BINARY_FORMAT")
      \o BoolOption(self, "trim_space", "TRIM_SPACE")
      \o BoolOption(self, "enable_octal", "ENABLE_OCTAL")
      \o BoolOption(self, "allow_duplicate", "ALLOW_DUPLICATE")
      \o BoolOption(self, "strip_outer_array", "STRIP_OUTER_ARRAY")
      \o BoolOption(self, "strip_null_values", "STRIP_NULL_VALUES")
      \o BoolOption(self, "replace_invalid_characters", "REPLACE_INVALID_CHARACTERS")
      \o BoolOption(self, "ignore_utf8_errors", "IGNORE_UTF8_ERRORS")
      \o BoolOption(self, "skip_byte_order_mark", "SKIP_BYTE_ORDER_MARK")
      \o QuotedOption(self, "file_extension", "FILE_EXTENSION")
      \o NullIfOption(self))

\* CsvOptions.to_sql
CsvOptions_to_sql(self) ==
    join(<<" ">>,
         <<<<"TYPE", " = ", "CSV">>>>
      \o EnumOption(self, "compression", "COMPRESSION")
      \o QuotedOption(self, "record_delimiter", "RECORD_DELIMITER")
      \o QuotedOption(self, "field_delimiter", "FIELD_DELIMITER")
      \o QuotedOption(self, "file_extension", "FILE_EXTENSION")
      \o BoolOption(self, "parse_header", "PARSE_HEADER")
      \o When(IsSet(self.skip_header), <<"SKIP_HEADER", " = ">> \o str_int(self.skip_header.v))
      \o BoolOption(self, "skip_blank_lines", "SKIP_BLANK_LINES")
      \o QuotedOption(self, "date_format", "DATE_FORMAT")
      \o QuotedOption(self, "time_format", "TIME_FORMAT")
      \o QuotedOption(self, "timestamp_format", "TIMESTAMP_FORMAT")
      \o EnumOption(self, "binary_format", "BINARY_FORMAT")
      \o QuotedOption(self, "escape", "ESCAPE")
      \o QuotedOption(self, "escape_unenclosed_field", "ESCAPE_UNENCLOSED_FIELD")
      \o BoolOption(self, "trim_space", "TRIM_SPACE")
      \o QuotedOption(self, "field_optionally_enclosed_by", "FIELD_OPTIONALLY_ENCLOSED_BY")
      \o NullIfOption(self)
      \o BoolOption(self, "error_on_column_count_mismatch", "ERROR_ON_COLUMN_COUNT_MISMATCH")
      \o BoolOption(self, "replace_invalid_characters", "REPLACE_INVALID_CHARACTERS")
      \o BoolOption(self, "empty_field_as_null", "EMPTY_FIELD_AS_NULL")
      \o BoolOption(self, "skip_byte_order_mark", "SKIP_BYTE_ORDER_MARK")
      \o QuotedOption(self, "encoding", "ENCODING"))

\* XmlOptions.to_sql
XmlOptions_to_sql(self) ==
    join(<<" ">>,
         <<<<"TYPE", " = ", "XML">>>>
      \o EnumOption(self, "compression", "COMPRESSION")
      \o BoolOption(self, "ignore_utf8_errors", "IGNORE_UTF8_ERRORS")
      \o BoolOption(self, "preserve_space", "PRESERVE_SPACE")
      \o BoolOption(self, "strip_outer_element", "STRIP_OUTER_ELEMENT")
      \o BoolOption(self, "disable_snowflake_data", "DISABLE_SNOWFLAKE_DATA")
      \o BoolOption(self, "disable_auto_convert", "DISABLE_AUTO_CONVERT")
      \o BoolOption(self, "replace_invalid_characters", "REPLACE_INVALID_CHARACTERS")
      \o BoolOption(self, "skip_byte_order_mark", "SKIP_BYTE_ORDER_MARK"))

\* OrcOptions.to_sql
OrcOptions_to_sql(self) ==
    join(<<" ">>,
         <<<<"TYPE", " = ", "ORC">>>>
      \o BoolOption(self, "trim_space", "TRIM_SPACE")
      \o BoolOption(self, "replace_invalid_characters", "REPLACE_INVALID_CHARACTERS")
      \o NullIfOption(self))

\* The file-format Option classes.
OptionClasses ==
    {"AvroOptions", "ParquetOptions", "JsonOptions", "CsvOptions", "XmlOptions", "OrcOptions"}

\* options.to_sql() of a FileFormatOptions object, by its class.
FileFormatOptions_to_sql(c, self) ==
    CASE c = "AvroOptions" -> AvroOptions_to_sql(self)
      [] c = "ParquetOptions" -> ParquetOptions_to_sql(self)
      [] c = "JsonOptions" -> JsonOptions_to_sql(self)
      [] c = "CsvOptions" -> CsvOptions_to_sql(self)
      [] c = "XmlOptions" -> XmlOptions_to_sql(self)
      [] c = "OrcOptions" -> OrcOptions_to_sql(self)

\* FileFormatBuilder._to_sql, which build() stores as FileFormat.sql_statement.
FileFormatBuilder_to_sql(self) ==
    join(<<" ">>,
         <<IF self._create_or_replace.v THEN <<"CREATE OR REPLACE">> ELSE <<"CREATE">>>>
      \o (IF self._temporary.v THEN <<<<"TEMPORARY">>>>
          ELSE When(self._volatile.v, <<"VOLATILE">>))
      \o <<<<"FILE FORMAT">>>>
      \o When(self._create_if_not_exists.v, <<"IF NOT EXISTS">>)
      \o <<self._name.v>>
      \o (IF Truthy(self._options)
          THEN <<FileFormatOptions_to_sql(self._options.v.cls, self._options.v.attrs)>>
          ELSE <<>>)
      \o When(Truthy(self._comment), <<"COMMENT", " = ">> \o CommentLiteral(self._comment.v)))

\* FileFormatSpecification.to_sql
FileFormatSpecification_to_sql(self) ==
    IF self.type = "named"
    THEN <<"FORMAT_NAME", " = ", Quote>> \o self.value.v \o <<Quote>>
    ELSE IF Truthy(self.value.v.options)
    THEN FileFormatOptions_to_sql(self.value.v.options.v.cls, self.value.v.options.v.attrs)
    ELSE <<>>

\* f"NAME = ({' '.join(parts)})" of a credentials or encryption dict.
DictOption(self, field, word) ==
    When(Truthy(self[field]),
         <<word, " = ", "(">> \o join(<<" ">>, ItemParts(self[field].v)) \o <<")">>)

\* InternalStageParams.to_sql
InternalStageParams_to_sql(self) ==
    join(<<" ">>,
         QuotedOption(self, "url", "URL")
      \o DictOption(self, "encryption", "ENCRYPTION"))

\* S3ExternalStageParams.to_sql
S3ExternalStageParams_to_sql(self) ==
    join(<<" ">>,
         <<<<"URL", " = ", Quote>> \o self.url.v \o <<Quote>>>>
      \o When(Truthy(self.storage_integration),
              <<"STORAGE_INTEGRATION", " = ">> \o self.storage_integration.v)
      \o DictOption(self, "credentials", "CREDENTIALS")
      \o DictOption(self, "encryption", "ENCRYPTION"))

\* DirectoryTableParams.to_sql
DirectoryTableParams_to_sql(self) ==
    <<"DIRECTORY", " = ", "(">>
    \o join(<<" ">>,
            When(self.enable.v, <<"ENABLE", " = ", "true">>)
         \o When(self.refresh_on_create.v, <<"REFRESH_ON_CREATE", " = ", "true">>))
    \o <<")">>

\* Stage.to_sql
Stage_to_sql(self) ==
    join(<<" ">>,
         CreateHead(self, When(self.is_temporary.v, <<"TEMPORARY">>), "STAGE")
      \o <<self.name.v>>
      \o (IF Truthy(self.stage_params)
          THEN <<IF self.stage_params.v.cls = "InternalStageParams"
                 THEN InternalStageParams_to_sql(self.stage_params.v.attrs)
                 ELSE S3ExternalStageParams_to_sql(self.stage_params.v.attrs)>>
          ELSE <<>>)
      \o (IF Truthy(self.directory_table_params)
          THEN <<DirectoryTableParams_to_sql(self.directory_table_params.v.attrs)>>
          ELSE <<>>)
      \o (IF Truthy(self.file_format)
          THEN <<<<"FILE_FORMAT", " = ", "(">> \o FileFormatSpecification_to_sql(self.file_format.v)
                 \o <<")">>>>
          ELSE <<>>)
      \o When(Truthy(self.comment), <<"COMMENT", " = ">> \o CommentLiteral(self.comment.v))
      \o DictOption(self, "tags", "TAGS"))

\* CopyIntoTarget.to_sql
CopyIntoTarget_to_sql(self) == self.name

\* CopyIntoSource.to_sql
CopyIntoSource_to_sql(self) ==
    IF self.source_type = "stage" THEN <<"@">> \o self.name ELSE self.name

\* Mutant of CopyIntoOptions.to_sql: PURGE is appended before ON_ERROR.
CopyIntoOptions_to_sql_purge_first(self) ==
    join(<<" ">>,
         When(self.return_failed_only.v, <<"RETURN_FAILED_ONLY", " = ", "TRUE">>)
      \o When(self.purge.v, <<"PURGE", " = ", "TRUE">>)
      \o EnumOption(self, "on_error", "ON_ERROR")
      \o When(Truthy(self.size_limit), <<"SIZE_LIMIT", " = ">> \o str_int(self.size_limit.v))
      \o EnumOption(self, "match_by_column_name", "MATCH_BY_COLUMN_NAME")
      \o When(self.enforce_length.v, <<"ENFORCE_LENGTH", " = ", "TRUE">>)
      \o When(self.truncate_columns.v, <<"TRUNCATECOLUMNS", " = ", "TRUE">>)
      \o When(self.force.v, <<"FORCE", " = ", "TRUE">>)
      \o When(self.load_uncertain_files.v, <<"LOAD_UNCERTAIN_FILES", " = ", "TRUE">>)
      \o When(Truthy(self.file_processor),
              <<"FILE_PROCESSOR", " = ", "(">> \o self.file_processor.v \o <<")">>)
      \o When(Truthy(self.include_metadata),
              <<"INCLUDE_METADATA", " = ", "(", "{">>
              \o join(<<", ">>, [i \in 1..Len(self.include_metadata.v) |->
                                   <<Quote>> \o self.include_metadata.v[i][1] \o <<Quote, ": ", Quote>>
                                   \o self.include_metadata.v[i][2] \o <<Quote>>])
              \o <<"}", ")">>))

\* CopyIntoOptions.to_sql
CopyIntoOptions_to_sql(self) ==
    join(<<" ">>,
         When(self.return_failed_only.v, <<"RETURN_FAILED_ONLY", " = ", "TRUE">>)
      \o EnumOption(self, "on_error", "ON_ERROR")
      \o When(Truthy(self.size_limit), <<"SIZE_LIMIT", " = ">> \o str_int(self.size_limit.v))
      \o When(self.purge.v, <<"PURGE", " = ", "TRUE">>)
      \o EnumOption(self, "match_by_column_name", "MATCH_BY_COLUMN_NAME")
      \o When(self.enforce_length.v, <<"ENFORCE_LENGTH", " = ", "TRUE">>)
      \o When(self.truncate_columns.v, <<"TRUNCATECOLUMNS", " = ", "TRUE">>)
      \o When(self.force.v, <<"FORCE", " = ", "TRUE">>)
      \o When(self.load_uncertain_files.v, <<"LOAD_UNCERTAIN_FILES", " = ", "TRUE">>)
      \o When(Truthy(self.file_processor),
              <<"FILE_PROCESSOR", " = ", "(">> \o self.file_processor.v \o <<")">>)
      \o When(Truthy(self.include_metadata),
              <<"INCLUDE_METADATA", " = ", "(", "{">>
              \o join(<<", ">>, [i \in 1..Len(self.include_metadata.v) |->
                                   <<Quote>> \o self.include_metadata.v[i][1] \o <<Quote, ": ", Quote>>
                                   \o self.include_metadata.v[i][2] \o <<Quote>>])
              \o <<"}", ")">>))

\* CopyInto.to_sql
CopyInto_to_sql(self) ==
    join(<<" ">>,
         <<<<"COPY INTO">>, CopyIntoTarget_to_sql(self.target.v), <<"FROM">>,
           CopyIntoSource_to_sql(self.source.v)>>
      \o QuotedOption(self, "pattern", "PATTERN")
      \o (IF Truthy(self.file_format)
          THEN <<<<"FILE_FORMAT", " = ", "(">> \o FileFormatSpecification_to_sql(self.file_format.v)
                 \o <<")">>>>
          ELSE <<>>)
      \o When(Truthy(self.files),
              <<"FILES", " = ", "(">> \o join(<<", ">>, QuotedParts(self.files.v)) \o <<")">>)
      \o EnumOption(self, "validation_mode", "VALIDATION_MODE")
      \o When(CopyIntoOptions_to_sql(self.options.v) # <<>>, CopyIntoOptions_to_sql(self.options.v)))

\* InternalStage.__str__
InternalStage_str(self) ==
    IF self.stage_type = "table" THEN <<"@%">> \o self.name
    ELSE IF self.stage_type = "user" THEN <<"@~/">> \o self.name
    ELSE <<"@">> \o self.name

\* Put.to_sql
Put_to_sql(self) ==
    join(<<" ">>,
         <<<<"PUT">>>>
      \o <<<<Quote, "file://">> \o self.file_path.v \o <<Quote>>>>
      \o <<InternalStage_str(self.stage.v)>>
      \o When(IsSet(self.parallel), <<"PARALLEL", " = ">> \o str_int(self.parallel.v))
      \o When(self.auto_compress.v, <<"AUTO_COMPRESS", " = ", "TRUE">>)
      \o <<<<"SOURCE_COMPRESSION", " = ", self.source_compression.v>>>>
      \o When(self.overwrite.v, <<"OVERWRITE", " = ", "TRUE">>))

\* entity.to_sql(), by the class of the entity.
to_sql(c, self) ==
    CASE c = "Table" -> Table_to_sql(self)
      [] c = "Stage" -> Stage_to_sql(self)
      [] c = "Stream" -> Stream_to_sql(self)
      [] c = "Task" -> Task_to_sql(self)
      [] c = "FileFormat" -> self.sql_statement.v
      [] c = "Put" -> Put_to_sql(self)
      [] c = "CopyInto" -> CopyInto_to_sql(self)
      [] c = "CopyIntoOptions" -> CopyIntoOptions_to_sql(self)
      [] c = "Column" -> Column_to_sql(self)
      [] c \in OptionClasses -> FileFormatOptions_to_sql(c, self)

----------------------------------------------------------------------------
(* The builders                                                            *)

\* Most setter calls made on one builder in the model.
MaxSetters == 2

\* The attributes of a new builder of each class: the dataclass defaults or what
\* __init__ assigns.  The lists and dicts a builder creates are heap[1] and heap[2].
BuilderDefaults ==
    [TableBuilder |->
        [name |-> None, columns |-> Ref(1), table_type |-> Enum("PERMANENT"), cluster_by |-> None,
         stage_file_format |-> None, stage_copy_options |-> None,
         data_retention_time_in_days |-> None, max_data_extension_time_in_days |-> None,
         change_tracking |-> None, default_ddl_collation |-> None, copy_grants |-> Bool(FALSE),
         comment |-> None, row_access_policy |-> None, aggregation_policy |-> None,
         tags |-> Ref(2), is_create_or_replace |-> Bool(FALSE),
         is_create_if_not_exists |-> Bool(FALSE)],
     StageBuilder |->
        [name |-> None, stage_params |-> None, directory_table_params |-> None,
         file_format |-> None, comment |-> None, tags |-> Ref(1),
         is_create_or_replace |-> Bool(FALSE), is_create_if_not_exists |-> Bool(FALSE),
         is_temporary |-> Bool(FALSE)],
     StreamBuilder |->
        [name |-> None, source |-> None, mode |-> None, type |-> None, insert_only |-> Bool(FALSE),
         show_initial_rows |-> Bool(FALSE), append_only |-> Bool(FALSE), comment |-> None,
         tags |-> Ref(1), is_create_or_replace |-> Bool(FALSE),
         is_create_if_not_exists |-> Bool(FALSE)],
     TaskBuilder |->
        [name |-> None, task_type |-> None, sql_statement |-> None, tags |-> Ref(1),
         warehouse |-> None, warehouse_size |-> None, schedule |-> None, config |-> None,
         allow_overlapping_execution |-> Bool(FALSE), session_parameters |-> Ref(2),
         user_task_timeout_ms |-> None, suspend_task_after_num_failures |-> None,
         error_integration |-> None, comment |-> None, finalize |-> None,
         task_auto_retry_attempts |-> None,
         user_task_minimum_trigger_interval_in_seconds |-> None, after |-> None, when |-> None,
         is_create_or_replace |-> Bool(FALSE), is_create_if_not_exists |-> Bool(FALSE)],
     PutBuilder |->
        [file_path |-> None, stage |-> None, parallel |-> None, auto_compress |-> Bool(TRUE),
         source_compression |-> Enum("AUTO"), overwrite |-> Bool(FALSE)],
     CopyIntoOptionsBuilder |->
        [return_failed_only |-> Bool(FALSE), on_error |-> None, size_limit |-> None,
         purge |-> Bool(FALSE), match_by_column_name |-> None, enforce_length |-> Bool(FALSE),
         truncate_columns |-> Bool(FALSE), force |-> Bool(FALSE),
         load_uncertain_files |-> Bool(FALSE), file_processor |-> None,
         include_metadata |-> None],
     FileFormatBuilder |->
        [_name |-> None, _temporary |-> Bool(FALSE), _volatile |-> Bool(FALSE), _options |-> None,
         _create_or_replace |-> Bool(FALSE), _create_if_not_exists |-> Bool(FALSE),
         _comment |-> None],
     AvroOptionsBuilder |->
        [compression |-> None, trim_space |-> None, replace_invalid_characters |-> None,
         null_if |-> None],
     ParquetOptionsBuilder |->
        [compression |-> None, binary_as_text |-> None, use_logical_type |-> None,
         trim_space |-> None, replace_invalid_characters |-> None, null_if |-> None,
         use_vectorized_scanner |-> None],
     JsonOptionsBuilder |->
        [compression |-> None, date_format |-> None, time_format |-> None,
         timestamp_format |-> None, binary_format |-> None, trim_space |-> None,
         null_if |-> None, file_extension |-> None, enable_octal |-> None,
         allow_duplicate |-> None, strip_outer_array |-> None, strip_null_values |-> None,
         replace_invalid_characters |-> None, ignore_utf8_errors |-> None,
         skip_byte_order_mark |-> None],
     CsvOptionsBuilder |->
        [compression |-> None, record_delimiter |-> None, field_delimiter |-> None,
         file_extension |-> None, parse_header |-> None, skip_header |-> None,
         skip_blank_lines |-> None, date_format |-> None, time_format |-> None,
         timestamp_format |-> None, binary_format |-> None, escape |-> None,
         escape_unenclosed_field |-> None, trim_space |-> None,
         field_optionally_enclosed_by |-> None, null_if |-> None,
         error_on_column_count_mismatch |-> None, replace_invalid_characters |-> None,
         empty_field_as_null |-> None, skip_byte_order_mark |-> None, encoding |-> None],
     XmlOptionsBuilder |->
        [compression |-> None, ignore_utf8_errors |-> None, preserve_space |-> None,
         strip_outer_element |-> None, disable_snowflake_data |-> None,
         disable_auto_convert |-> None, replace_invalid_characters |-> None,
         skip_byte_order_mark |-> None],
     OrcOptionsBuilder |->
        [trim_space |-> None, replace_invalid_characters |-> None, null_if |-> None]]

\* The default CopyIntoOptions(), as the dataclass declares it.
CopyIntoOptions_defaults ==
    [enforce_length |-> Bool(FALSE), file_processor |-> None, force |-> Bool(FALSE),
     include_metadata |-> None, load_uncertain_files |-> Bool(FALSE),
     match_by_column_name |-> None, on_error |-> None, purge |-> Bool(FALSE),
     return_failed_only |-> Bool(FALSE), size_limit |-> None, truncate_columns |-> Bool(FALSE)]

\* CopyIntoBuilder.__init__
CopyIntoBuilder_defaults ==
    [target |-> None, source |-> None, pattern |-> None, files |-> None, file_format |-> None,
     options |-> Obj(CopyIntoOptions_defaults), validation_mode |-> None]

BuilderClasses == DOMAIN BuilderDefaults \cup {"CopyIntoBuilder"}

\* The attributes of a new builder of class b.
NewBuilder(b) == IF b = "CopyIntoBuilder" THEN CopyIntoBuilder_defaults ELSE BuilderDefaults[b]

\* The lists and dicts a new builder of class b holds, all empty.
NewHeap(b) ==
    CASE b = "TableBuilder" -> <<List(<<>>), Dict(<<>>)>>
      [] b = "TaskBuilder" -> <<Dict(<<>>), Dict(<<>>)>>
      [] b \in {"StageBuilder", "StreamBuilder"} -> <<Dict(<<>>)>>
      [] OTHER -> <<>>

\* The setters that assign their argument to one attribute: <<setter, attribute, type>>.
Setters ==
    [TableBuilder |->
        {<<"with_table_type", "table_type", "TableType">>,
         <<"with_cluster_by", "cluster_by", "list">>,
         <<"with_stage_file_format", "stage_file_format", "str">>,
         <<"with_stage_copy_options", "stage_copy_options", "str">>,
         <<"with_data_retention_time_in_days", "data_retention_time_in_days", "int">>,
         <<"with_max_data_extension_time_in_days", "max_data_extension_time_in_days", "int">>,
         <<"with_change_tracking", "change_tracking", "bool">>,
         <<"with_default_ddl_collation", "default_ddl_collation", "str">>,
         <<"with_copy_grants", "copy_grants", "bool">>,
         <<"with_comment", "comment", "str">>,
         <<"with_row_access_policy", "row_access_policy", "policy">>,
         <<"with_aggregation_policy", "aggregation_policy", "policy">>},
     StageBuilder |->
        {<<"with_name", "name", "str">>,
         <<"with_stage_params", "stage_params", "StageParams">>,
         <<"with_directory_table_params", "directory_table_params", "DirectoryTableParams">>,
         <<"with_file_format", "file_format", "FileFormatSpecification">>,
         <<"with_comment", "comment", "str">>},
     StreamBuilder |->
        {<<"with_source", "source", "str">>,
         <<"with_mode", "mode", "StreamMode">>,
         <<"with_type", "type", "StreamType">>,
         <<"with_insert_only", "insert_only", "bool">>,
         <<"with_show_initial_rows", "show_initial_rows", "bool">>,
         <<"with_append_only", "append_only", "bool">>,
         <<"with_comment", "comment", "str">>,
         <<"with_tags", "tags", "dict">>},
     TaskBuilder |->
        {<<"with_task_type", "task_type", "TaskType">>,
         <<"with_sql_statement", "sql_statement", "str">>,
         <<"with_tags", "tags", "dict">>,
         <<"with_warehouse", "warehouse", "str">>,
         <<"with_warehouse_size", "warehouse_size", "WarehouseSize">>,
         <<"with_schedule", "schedule", "Schedule">>,
         <<"with_config", "config", "str">>,
         <<"with_overlapping_execution", "allow_overlapping_execution", "bool">>,
         <<"with_session_parameters", "session_parameters", "dict">>,
         <<"with_timeout", "user_task_timeout_ms", "int">>,
         <<"with_suspend_after_failures", "suspend_task_after_num_failures", "int">>,
         <<"with_error_integration", "error_integration", "str">>,
         <<"with_comment", "comment", "str">>,
         <<"with_finalize", "finalize", "str">>,
         <<"with_auto_retry_attempts", "task_auto_retry_attempts", "int">>,
         <<"with_minimum_trigger_interval", "user_task_minimum_trigger_interval_in_seconds", "int">>,
         <<"with_after_tasks", "after", "list">>,
         <<"with_when_condition", "when", "str">>},
     PutBuilder |->
        {<<"with_file_path", "file_path", "Path">>,
         <<"with_stage", "stage", "InternalStage">>,
         <<"with_auto_compress", "auto_compress", "bool">>,
         <<"with_source_compression", "source_compression", "CompressionType">>,
         <<"with_overwrite", "overwrite", "bool">>},
     CopyIntoBuilder |->
        {<<"with_target", "target", "CopyIntoTarget">>,
         <<"with_source", "source", "CopyIntoSource">>,
         <<"with_options", "options", "CopyIntoOptions">>,
         <<"with_pattern", "pattern", "str">>,
         <<"with_file_format", "file_format", "FileFormatSpecification">>,
         <<"with_files", "files", "list">>,
         <<"with_validation_mode", "validation_mode", "ValidationMode">>},
     CopyIntoOptionsBuilder |->
        {<<"with_return_failed_only", "return_failed_only", "bool">>,
         <<"with_on_error", "on_error", "OnError">>,
         <<"with_size_limit", "size_limit", "int">>,
         <<"with_purge", "purge", "bool">>,
         <<"with_match_by_column_name", "match_by_column_name", "MatchByColumnName">>,
         <<"with_enforce_length", "enforce_length", "bool">>,
         <<"with_truncate_columns", "truncate_columns", "bool">>,
         <<"with_force", "force", "bool">>,
         <<"with_load_uncertain_files", "load_uncertain_files", "bool">>,
         <<"with_file_processor", "file_processor", "str">>,
         <<"with_include_metadata", "include_metadata", "dict">>},
     FileFormatBuilder |->
        {<<"with_options", "_options", "FileFormatOptions">>,
         <<"with_comment", "_comment", "str">>},
     AvroOptionsBuilder |->
        {<<"with_compression", "compression", "CompressionType">>,
         <<"with_trim_space", "trim_space", "bool">>,
         <<"with_replace_invalid_characters", "replace_invalid_characters", "bool">>,
         <<"with_null_if", "null_if", "list">>},
     ParquetOptionsBuilder |->
        {<<"with_compression", "compression", "CompressionType">>,
         <<"with_binary_as_text", "binary_as_text", "bool">>,
         <<"with_use_logical_type", "use_logical_type", "bool">>,
         <<"with_trim_space", "trim_space", "bool">>,
         <<"with_replace_invalid_characters", "replace_invalid_characters", "bool">>,
         <<"with_null_if", "null_if", "list">>,
         <<"with_use_vectorized_scanner", "use_vectorized_scanner", "bool">>},
     JsonOptionsBuilder |->
        {<<"with_compression", "compression", "CompressionType">>,
         <<"with_date_format", "date_format", "str">>,
         <<"with_time_format", "time_format", "str">>,
         <<"with_timestamp_format", "timestamp_format", "str">>,
         <<"with_binary_format", "binary_format", "BinaryFormat">>,
         <<"with_trim_space", "trim_space", "bool">>,
         <<"with_null_if", "null_if", "list">>,
         <<"with_file_extension", "file_extension", "str">>,
         <<"with_enable_octal", "enable_octal", "bool">>,
         <<"with_allow_duplicate", "allow_duplicate", "bool">>,
         <<"with_strip_outer_array", "strip_outer_array", "bool">>,
         <<"with_strip_null_values", "strip_null_values", "bool">>,
         <<"with_replace_invalid_characters", "replace_invalid_characters", "bool">>,
         <<"with_ignore_utf8_errors", "ignore_utf8_errors", "bool">>,
         <<"with_skip_byte_order_mark", "skip_byte_order_mark", "bool">>},
     CsvOptionsBuilder |->
        {<<"with_compression", "compression", "CompressionType">>,
         <<"with_record_delimiter", "record_delimiter", "str">>,
         <<"with_field_delimiter", "field_delimiter", "str">>,
         <<"with_file_extension", "file_extension", "str">>,
         <<"with_parse_header", "parse_header", "bool">>,
         <<"with_skip_header", "skip_header", "int">>,
         <<"with_skip_blank_lines", "skip_blank_lines", "bool">>,
         <<"with_date_format", "date_format", "str">>,
         <<"with_time_format", "time_format", "str">>,
         <<"with_timestamp_format", "timestamp_format", "str">>,
         <<"with_binary_format", "binary_format", "BinaryFormat">>,
         <<"with_escape", "escape", "str">>,
         <<"with_escape_unenclosed_field", "escape_unenclosed_field", "str">>,
         <<"with_trim_space", "trim_space", "bool">>,
         <<"with_field_optionally_enclosed_by", "field_optionally_enclosed_by", "str">>,
         <<"with_null_if", "null_if", "list">>,
         <<"with_error_on_column_count_mismatch", "error_on_column_count_mismatch", "bool">>,
         <<"with_replace_invalid_characters", "replace_invalid_characters", "bool">>,
         <<"with_empty_field_as_null", "empty_field_as_null", "bool">>,
         <<"with_skip_byte_order_mark", "skip_byte_order_mark", "bool">>,
         <<"with_encoding", "encoding", "str">>},
     XmlOptionsBuilder |->
        {<<"with_compression", "compression", "CompressionType">>,
         <<"with_ignore_utf8_errors", "ignore_utf8_errors", "bool">>,
         <<"with_preserve_space", "preserve_space", "bool">>,
         <<"with_strip_outer_element", "strip_outer_element", "bool">>,
         <<"with_disable_snowflake_data", "disable_snowflake_data", "bool">>,
         <<"with_disable_auto_convert", "disable_auto_convert", "bool">>,
         <<"with_replace_invalid_characters", "replace_invalid_characters", "bool">>,
         <<"with_skip_byte_order_mark", "skip_byte_order_mark", "bool">>},
     OrcOptionsBuilder |->
        {<<"with_trim_space", "trim_space", "bool">>,
         <<"with_replace_invalid_characters", "replace_invalid_characters", "bool">>,
         <<"with_null_if", "null_if", "list">>}]

\* The setters without argument, which set a flag: <<setter, attribute>>.
FlagSetters ==
    [TableBuilder |->
        {<<"with_create_or_replace", "is_create_or_replace">>,
         <<"with_create_if_not_exists", "is_create_if_not_exists">>},
     StageBuilder |->
        {<<"create_or_replace", "is_create_or_replace">>,
         <<"create_if_not_exists", "is_create_if_not_exists">>,
         <<"temporary", "is_temporary">>},
     StreamBuilder |->
        {<<"with_create_or_replace", "is_create_or_replace">>,
         <<"with_create_if_not_exists", "is_create_if_not_exists">>},
     TaskBuilder |->
        {<<"with_create_or_replace", "is_create_or_replace">>,
         <<"with_create_if_not_exists", "is_create_if_not_exists">>},
     FileFormatBuilder |->
        {<<"with_create_or_replace", "_create_or_replace">>,
         <<"with_create_if_not_exists", "_create_if_not_exists">>,
         <<"with_temporary", "_temporary">>,
         <<"with_volatile", "_volatile">>}]

----------------------------------------------------------------------------
(* The arguments the model's caller passes                                 *)

\* A str with a single quote inside, and a plain one.
Quoted == <<"o", Quote, "k">>

Plain == <<"x">>

\* Column(...) objects: every combination of the optional attributes.
Columns ==
    {[name |-> Str(<<"c">>), data_type |-> d, nullable |-> Bool(n), default |-> df,
      identity |-> Bool(i), primary_key |-> Bool(p), unique |-> Bool(u), foreign_key |-> fk,
      comment |-> cm, collate |-> cl] :
        d \in {Enum("NUMBER"), Str(<<"STRING", "(", "9", ")">>)},
        n \in BOOLEAN, i \in BOOLEAN, p \in BOOLEAN, u \in BOOLEAN,
        df \in {None, Str(<<>>), Str(<<"0">>)},
        fk \in {None, Str(<<>>), Str(<<"t", "(", "c", ")">>)},
        cm \in {None, Str(<<>>), Str(Quoted)},
        cl \in {None, Str(<<>>), Str(<<"u", "t", "f", "8">>)}}

\* The two columns the model adds to tables.
TableColumns ==
    {c \in Columns :
        /\ c.default = None /\ c.foreign_key = None /\ c.collate = None
        /\ ~c.identity.v /\ ~c.unique.v /\ ~c.primary_key.v
        /\ \/ c.data_type.t = "enum" /\ c.nullable.v /\ c.comment = None
           \/ c.data_type.t = "str" /\ ~c.nullable.v /\ c.comment = Str(Quoted)}

OrcOptions_sample ==
    [cls |-> "OrcOptions",
     attrs |-> [trim_space |-> Bool(TRUE), replace_invalid_characters |-> None, null_if |-> None]]

\* The values the caller passes for a parameter of each type.
Args(type) ==
    CASE type = "str" -> {Str(<<>>), Str(Quoted)}
      [] type = "bool" -> {Bool(TRUE), Bool(FALSE)}
      [] type = "int" -> {Num(0), Num(7)}
      [] type = "list" -> {List(<<>>), List(<<Plain>>)}
      [] type = "dict" -> {Dict(<<>>), Dict(<< <<Plain, Quoted>> >>)}
      [] type = "Path" -> {Str(<<"f">>)}
      [] type = "TableType" -> {Enum("PERMANENT"), Enum("TRANSIENT")}
      [] type = "TaskType" -> {Enum("SQL")}
      [] type = "WarehouseSize" -> {Enum("XSMALL")}
      [] type = "StreamMode" -> {Enum("APPEND_ONLY")}
      [] type = "StreamType" -> {Enum("STANDARD")}
      [] type = "CompressionType" -> {Enum("GZIP")}
      [] type = "BinaryFormat" -> {Enum("HEX")}
      [] type = "OnError" -> {Enum("SKIP_FILE")}
      [] type = "MatchByColumnName" -> {Enum("CASE_SENSITIVE")}
      [] type = "ValidationMode" -> {Enum("RETURN_ERRORS")}
      [] type = "policy" -> {Obj([name |-> <<"p">>, on |-> <<Plain>>])}
      [] type = "Schedule" ->
            {Obj([cron_expr |-> None, timezone |-> None, interval_minutes |-> Num(5)]),
             Obj([cron_expr |-> Str(<<"*">>), timezone |-> Str(<<"U", " ">>),
                  interval_minutes |-> None]),
             Obj([cron_expr |-> None, timezone |-> None, interval_minutes |-> None])}
      [] type = "InternalStage" ->
            {Obj([stage_type |-> k, name |-> <<"s">>]) : k \in {"table", "user", "named"}}
      [] type = "CopyIntoTarget" ->
            {Obj([name |-> <<"T">>, target_type |-> k]) : k \in {"table", "stage"}}
      [] type = "CopyIntoSource" ->
            {Obj([name |-> <<"S">>, source_type |-> k]) : k \in {"table", "stage"}}
      [] type = "CopyIntoOptions" ->
            {Obj(CopyIntoOptions_defaults),
             Obj([CopyIntoOptions_defaults EXCEPT !.purge = Bool(TRUE),
                                                 !.on_error = Enum("SKIP_FILE")])}
      [] type = "FileFormatOptions" -> {Obj(OrcOptions_sample)}
      [] type = "FileFormatSpecification" ->
            {Obj([type |-> "named", value |-> Str(Quoted)]),
             Obj([type |-> "inline",
                  value |-> Obj([name |-> Str(<<"f">>), options |-> Obj(OrcOptions_sample),
                                 sql_statement |-> Str(<<>>)])])}
      [] type = "StageParams" ->
            {Obj([cls |-> "InternalStageParams",
                  attrs |-> [url |-> Str(Quoted), encryption |-> None]]),
             Obj([cls |-> "S3ExternalStageParams",
                  attrs |-> [url |-> Str(Quoted), storage_integration |-> None,
                             credentials |-> None,
                             encryption |-> Dict(<< <<Plain, Quoted>> >>)]])}
      [] type = "DirectoryTableParams" ->
            {Obj([cls |-> "InternalDirectoryTableParams",
                  attrs |-> [enable |-> Bool(TRUE), refresh_on_create |-> Bool(FALSE)]])}

\* The attribute the constructor of builder class b takes, "" for none.
NameAttr(b) ==
    CASE b \in {"TableBuilder", "TaskBuilder", "StreamBuilder"} -> "name"
      [] b = "FileFormatBuilder" -> "_name"
      [] OTHER -> ""

\* The names the caller passes to the constructor of builder class b.
NameArgs(b) ==
    IF b = "FileFormatBuilder" THEN {Str(<<"f">>)} ELSE {None, Str(<<"t">>)}

\* The keys and values the caller passes to with_tag, and what it passes to with_parallel.
TagKeys == {<<"k">>, <<"j">>}

TagValues == {Quoted, Plain}

ParallelArgs == {0, 1, 99, 100}

----------------------------------------------------------------------------
(* build() and the actions of a builder                                    *)

\* The checks of build(), in the order of the code: <<attribute, test, message>>.
\* "not" is `if not self.x`, "is None" is `if self.x is None`.
BuildChecks(b) ==
    CASE b = "TableBuilder" ->
            << <<"name", "not", "Table name must be set">>,
               <<"columns", "not", "Table must have at least one column">> >>
      [] b = "TaskBuilder" ->
            << <<"name", "not", "Task name must be set">>,
               <<"task_type", "not", "Task type must be set">>,
               <<"sql_statement", "not", "SQL statement must be set">> >>
      [] b = "StageBuilder" -> << <<"name", "not", "Stage name must be set">> >>
      [] b = "StreamBuilder" ->
            << <<"name", "is None", "name must be set">>,
               <<"source", "is None", "source must be set">> >>
      [] b = "PutBuilder" ->
            << <<"file_path", "is None", "file_path must be set">>,
               <<"stage", "is None", "stage must be set">> >>
      [] b = "CopyIntoBuilder" ->
            << <<"target", "is None", "target must be set">>,
               <<"source", "is None", "source must be set">> >>
      [] OTHER -> <<>>

\* The checks of build() that fail on a builder with attributes self.
FailedChecks(b, self) ==
    {i \in 1..Len(BuildChecks(b)) :
        LET check == BuildChecks(b)[i]
        IN  IF check[2] = "not" THEN ~Truthy(self[check[1]]) ELSE ~IsSet(self[check[1]])}

\* The class of the entity a builder of class b builds.
EntityClass(b) ==
    CASE b = "TableBuilder" -> "Table"
      [] b = "StageBuilder" -> "Stage"
      [] b = "StreamBuilder" -> "Stream"
      [] b = "TaskBuilder" -> "Task"
      [] b = "PutBuilder" -> "Put"
      [] b = "CopyIntoBuilder" -> "CopyInto"
      [] b = "CopyIntoOptionsBuilder" -> "CopyIntoOptions"
      [] b = "FileFormatBuilder" -> "FileFormat"
      [] b = "AvroOptionsBuilder" -> "AvroOptions"
      [] b = "ParquetOptionsBuilder" -> "ParquetOptions"
      [] b = "JsonOptionsBuilder" -> "JsonOptions"
      [] b = "CsvOptionsBuilder" -> "CsvOptions"
      [] b = "XmlOptionsBuilder" -> "XmlOptions"
      [] b = "OrcOptionsBuilder" -> "OrcOptions"

\* The attributes CopyIntoOptionsBuilder.build passes on.
CopyIntoOptionsBuilder_passed ==
    {"return_failed_only", "on_error", "size_limit", "purge", "match_by_column_name",
     "enforce_length", "truncate_columns", "force"}

\* The attributes of the entity build() constructs: the builder's own values and
\* references, but for what the entity's constructor does to them.
\*   Stage.__init__             self.tags = tags or {}
\*   CopyIntoOptionsBuilder     passes eight of the eleven attributes
\*   FileFormatBuilder          name, options and the rendered statement
Built(b, self, h) ==
    CASE b = "StageBuilder" ->
            [self EXCEPT !.tags = IF Truthy(h[self.tags.v]) THEN @ ELSE Ref(2)]
      [] b = "CopyIntoOptionsBuilder" ->
            [f \in DOMAIN CopyIntoOptions_defaults |->
                IF f \in CopyIntoOptionsBuilder_passed THEN self[f] ELSE CopyIntoOptions_defaults[f]]
      [] b = "FileFormatBuilder" ->
            [name |-> self._name, options |-> self._options,
             sql_statement |-> Str(FileFormatBuilder_to_sql(self))]
      [] OTHER -> self

\* The heap after build(): Stage.__init__ creates a dict when it is given an empty
\* one; it is heap[2], the dict of an earlier Stage being garbage by then.
BuiltHeap(b, self, h) ==
    IF b = "StageBuilder" /\ ~Truthy(h[self.tags.v]) THEN <<h[1], Dict(<<>>)>> ELSE h

\* d[key] = value on the items of a dict.
SetItem(d, key, value) ==
    IF \E i \in 1..Len(d) : d[i][1] = key
    THEN [i \in 1..Len(d) |-> IF d[i][1] = key THEN <<key, value>> ELSE d[i]]
    ELSE Append(d, <<key, value>>)

\* The setter calls the model's caller makes on a builder of class b: one more
\* where build() checks required fields, which take setter calls themselves.
SetterCalls(b) == IF BuildChecks(b) # <<>> THEN MaxSetters + 1 ELSE MaxSetters

\* A setter call that returned: it is recorded, nothing was raised.  The model's
\* caller renders the entity last: no call on the builder follows to_sql().
Called(setter, arg) ==
    /\ cls \in BuilderClasses
    /\ Len(calls) < SetterCalls(cls)
    /\ rendered = NoSql
    /\ calls' = Append(calls, <<setter, arg>>)
    /\ failure' = ""
    /\ UNCHANGED <<cls, entity, rendered, forgeVars, tmVars, utilVars>>

\* A new builder of one of the classes in B.
NewOf(B) ==
    /\ cls = ""
    /\ \E b \in B :
          /\ cls' = b
          /\ heap' = NewHeap(b)
          /\ IF NameAttr(b) = ""
             THEN builder' = NewBuilder(b)
             ELSE \E name \in NameArgs(b) :
                     builder' = [NewBuilder(b) EXCEPT ![NameAttr(b)] = name]
    /\ UNCHANGED <<entity, calls, failure, rendered, forgeVars, tmVars, utilVars>>

\* Table.builder(name), Stage.builder(), CsvOptions.builder(), ...
Builder_new == NewOf(BuilderClasses)

\* Put.builder()
PutBuilder_init == NewOf({"PutBuilder"})

\* CopyIntoOptions.builder()
CopyIntoOptionsBuilder_init == NewOf({"CopyIntoOptionsBuilder"})

\* Column(name, data_type, ...): the dataclass constructor, no builder.
Column_init ==
    /\ cls = ""
    /\ cls' = "Column"
    /\ \E c \in Columns : entity' = [cls |-> "Column", attrs |-> c]
    /\ UNCHANGED <<builder, heap, calls, failure, rendered, forgeVars, tmVars, utilVars>>

\* with_x(value): self.x = value
with_attribute ==
    /\ cls \in DOMAIN Setters
    /\ \E s \in Setters[cls] : \E arg \in Args(s[3]) :
          /\ builder' = [builder EXCEPT ![s[2]] = arg]
          /\ Called(s[1], arg)
    /\ UNCHANGED heap

\* with_create_or_replace(), temporary(), ...: self.flag = True
with_flag ==
    /\ cls \in DOMAIN FlagSetters
    /\ \E s \in FlagSetters[cls] :
          /\ builder' = [builder EXCEPT ![s[2]] = Bool(TRUE)]
          /\ Called(s[1], Bool(TRUE))
    /\ UNCHANGED heap

\* TableBuilder.with_column: self.columns.append(column)
with_column ==
    /\ cls = "TableBuilder"
    /\ \E column \in TableColumns :
          /\ heap' = [heap EXCEPT ![builder.columns.v] = List(Append(@.v, column))]
          /\ Called("with_column", Obj(column))
    /\ UNCHANGED builder

\* TableBuilder.with_tag, StageBuilder.with_tag: self.tags[key] = value
with_tag ==
    /\ cls \in {"TableBuilder", "StageBuilder"}
    /\ \E key \in TagKeys, value \in TagValues :
          /\ heap' = [heap EXCEPT ![builder.tags.v] = Dict(SetItem(@.v, key, value))]
          /\ Called("with_tag", Dict(<< <<key, value>> >>))
    /\ UNCHANGED builder

\* Mutant of with_parallel: the value is stored before it is checked.
with_parallel_assigns_first ==
    /\ cls = "PutBuilder"
    /\ Len(calls) < SetterCalls(cls)
    /\ rendered = NoSql
    /\ \E parallel \in ParallelArgs :
          /\ builder' = [builder EXCEPT !.parallel = Num(parallel)]
          /\ calls' = Append(calls, <<"with_parallel", Num(parallel)>>)
          /\ failure' = IF ~(1 <= parallel /\ parallel <= 99)
                        THEN "Parallel value must be between 1 and 99" ELSE ""
    /\ UNCHANGED <<cls, heap, entity, rendered, forgeVars, tmVars, utilVars>>

\* PutBuilder.with_parallel
with_parallel ==
    /\ cls = "PutBuilder"
    /\ Len(calls) < SetterCalls(cls)
    /\ rendered = NoSql
    /\ \E parallel \in ParallelArgs :
          /\ calls' = Append(calls, <<"with_parallel", Num(parallel)>>)
          /\ IF ~(1 <= parallel /\ parallel <= 99)
             THEN /\ failure' = "Parallel value must be between 1 and 99"
                  /\ UNCHANGED builder
             ELSE /\ builder' = [builder EXCEPT !.parallel = Num(parallel)]
                  /\ failure' = ""
    /\ UNCHANGED <<cls, heap, entity, rendered, forgeVars, tmVars, utilVars>>

\* build(): the first failed check raises, otherwise the entity is constructed.
\* The model's caller builds one entity with a builder.
build ==
    /\ cls \in BuilderClasses
    /\ entity.cls = ""
    /\ rendered = NoSql
    /\ LET self == Deep(builder, heap)
           failed == FailedChecks(cls, self)
       IN  IF failed # {}
           THEN /\ failure' = BuildChecks(cls)[CHOOSE i \in failed : \A j \in failed : i <= j][3]
                /\ UNCHANGED <<entity, heap>>
           ELSE /\ failure' = ""
                /\ entity' = [cls |-> EntityClass(cls), attrs |-> Built(cls, builder, heap)]
                /\ heap' = BuiltHeap(cls, builder, heap)
    /\ UNCHANGED <<cls, builder, calls, rendered, forgeVars, tmVars, utilVars>>

\* entity.to_sql()
Entity_to_sql ==
    /\ entity.cls # ""
    /\ rendered' = to_sql(entity.cls, Deep(entity.attrs, heap))
    /\ UNCHANGED <<cls, builder, heap, entity, calls, failure, forgeVars, tmVars, utilVars>>

NextEntity ==
    \/ Builder_new
    \/ Column_init
    \/ with_attribute
    \/ with_flag
    \/ with_column
    \/ with_tag
    \/ with_parallel
    \/ build
    \/ Entity_to_sql

SpecEntity == Init /\ [][NextEntity]_vars

\* Column alone.
NextColumn ==
    \/ Column_init
    \/ Entity_to_sql

SpecColumn == Init /\ [][NextColumn]_vars

\* PutBuilder alone.
NextPut ==
    \/ PutBuilder_init
    \/ with_attribute
    \/ with_parallel
    \/ build
    \/ Entity_to_sql

SpecPut == Init /\ [][NextPut]_vars

\* CopyIntoOptionsBuilder alone.
NextCopyIntoOptions ==
    \/ CopyIntoOptionsBuilder_init
    \/ with_attribute
    \/ build
    \/ Entity_to_sql

SpecCopyIntoOptions == Init /\ [][NextCopyIntoOptions]_vars

----------------------------------------------------------------------------
(* Properties of the builders and of the rendered SQL                      *)

\* A value is given: it is not None, and not an empty text, list or dict.
Given(x) == IsSet(x) /\ ~(x.t \in {"str", "list", "dict"} /\ x.v = <<>>)

\* The atoms of a rendered text.
Atoms(text) == {text[i] : i \in 1..Len(text)}

\* `sub in text` for two texts.
Contains(text, sub) ==
    \E i \in 0..(Len(text) - Len(sub)) : SubSeq(text, i + 1, i + Len(sub)) = sub

\* The entity in hand was rendered, and it is of class c.
Rendered(c) == entity.cls = c /\ rendered # NoSql

\* The create-mode flags the rendered entity was built with.  A FileFormat keeps no
\* flags, its statement is rendered by build(): the flags are read from the calls
\* that came before it, which are all the calls when the builder would still
\* build the same entity.
OrReplace ==
    IF entity.cls = "FileFormat"
    THEN \E i \in 1..Len(calls) : calls[i][1] = "with_create_or_replace"
    ELSE entity.attrs.is_create_or_replace.v

IfNotExists ==
    IF entity.cls = "FileFormat"
    THEN \E i \in 1..Len(calls) : calls[i][1] = "with_create_if_not_exists"
    ELSE entity.attrs.is_create_if_not_exists.v

CreateRendered ==
    /\ rendered # NoSql
    /\ entity.cls \in {"Table", "Stage", "Stream", "Task", "FileFormat"}
    /\ entity.cls = "FileFormat" => entity.attrs = Built(cls, builder, heap)

\* C11: a rendered Table, Stage, Stream, Task or FileFormat statement starts with
\* CREATE OR REPLACE and holds no IF NOT EXISTS when the or-replace flag is set,
\* whatever the if-not-exists flag; with if-not-exists alone it starts with CREATE
\* and holds IF NOT EXISTS; with neither flag it starts with CREATE and holds no
\* IF NOT EXISTS.
C11_OrReplaceWins ==
    CreateRendered =>
        /\ rendered[1] = (IF OrReplace THEN "CREATE OR REPLACE" ELSE "CREATE")
        /\ ("IF NOT EXISTS" \in Atoms(rendered)) <=> (IfNotExists /\ ~OrReplace)

\* The name of a COPY INTO source or target as the statement shows it: a stage
\* behind an @, a table bare.
Located(kind, name) == IF kind = "stage" THEN <<"@">> \o name ELSE name

\* C12: a rendered COPY INTO statement begins COPY INTO <target> FROM <source>,
\* where a stage target and a stage source are @ followed by the name, and a table
\* target and a table source are the bare name.
C12_StagesBehindAt ==
    Rendered("CopyInto") =>
        LET target == entity.attrs.target.v
            source == entity.attrs.source.v
            begin == <<"COPY INTO", " ">> \o Located(target.target_type, target.name)
                     \o <<" ", "FROM", " ">> \o Located(source.source_type, source.name)
        IN  /\ Len(rendered) >= Len(begin)
            /\ SubSeq(rendered, 1, Len(begin)) = begin

\* The optional clauses of CREATE TASK and the TaskBuilder setter behind each:
\* <<keyword, setter>>.
TaskClauses ==
    {<<"WITH TAG", "with_tags">>,
     <<"WAREHOUSE", "with_warehouse">>,
     <<"USER_TASK_MANAGED_INITIAL_WAREHOUSE_SIZE", "with_warehouse_size">>,
     <<"SCHEDULE", "with_schedule">>,
     <<"CONFIG", "with_config">>,
     <<"ALLOW_OVERLAPPING_EXECUTION", "with_overlapping_execution">>,
     <<"SESSION_PARAMETERS", "with_session_parameters">>,
     <<"USER_TASK_TIMEOUT_MS", "with_timeout">>,
     <<"SUSPEND_TASK_AFTER_NUM_FAILURES", "with_suspend_after_failures">>,
     <<"ERROR_INTEGRATION", "with_error_integration">>,
     <<"COMMENT", "with_comment">>,
     <<"FINALIZE", "with_finalize">>,
     <<"TASK_AUTO_RETRY_ATTEMPTS", "with_auto_retry_attempts">>,
     <<"USER_TASK_MINIMUM_TRIGGER_INTERVAL_IN_SECONDS", "with_minimum_trigger_interval">>,
     <<"AFTER", "with_after_tasks">>,
     <<"WHEN", "with_when_condition">>}

\* The setters called on the builder in hand.
CalledSetters == {calls[i][1] : i \in 1..Len(calls)}

\* C13: an optional clause stands in the rendered statement of a built Task only
\* if its setter was called on the builder; when no optional setter was called the
\* statement is the CREATE TASK line, AS and the SQL body.
C13_OnlyCalledClauses ==
    Rendered("Task") =>
        /\ \A clause \in TaskClauses :
              clause[1] \in Atoms(rendered) => clause[2] \in CalledSetters
        /\ CalledSetters \subseteq {"with_task_type", "with_sql_statement"} =>
              rendered = <<"CREATE", "\n", "TASK", " ">> \o entity.attrs.name.v
                         \o <<"\n", "AS", "\n">> \o entity.attrs.sql_statement.v

\* C14: once build() has returned an entity, a step that keeps the entity (a
\* setter call on the builder among them) leaves the values of the entity's fields
\* and the text its to_sql() returns as they were.
C14_EntityImmutable ==
    [][(entity.cls # "" /\ entity' = entity) =>
          /\ Deep(entity.attrs, heap') = Deep(entity.attrs, heap)
          /\ to_sql(entity.cls, Deep(entity.attrs, heap'))
                = to_sql(entity.cls, Deep(entity.attrs, heap))]_vars

\* Mutant of sql_escape_string: the first pass escapes the single quote with a
\* backslash, which the backslash pass then doubles.
sql_escape_string_quote_by_backslash(value) ==
    replace(replace(replace(value, Quote, <<"\\", Quote>>), "\\", <<"\\", "\\">>),
            "\"", <<"\"", "\"">>)

\* sql_escape_string: backslash, single quote and double quote doubled, in this order.
sql_escape_string(value) ==
    replace(replace(replace(value, "\\", <<"\\", "\\">>), Quote, <<Quote, Quote>>),
            "\"", <<"\"", "\"">>)

\* sql_quote_string
sql_quote_string(value) == <<Quote>> \o sql_escape_string(value) \o <<Quote>>

\* Mutant of sql_escape_comment: the single quote is doubled.
sql_escape_comment_doubling(value) == replace(value, Quote, <<Quote, Quote>>)

\* sql_escape_comment: value.replace("'", "\\'")
sql_escape_comment(value) == replace(value, Quote, <<"\\", Quote>>)

\* sql_quote_comment
sql_quote_comment(value) == <<Quote>> \o sql_escape_comment(value) \o <<Quote>>

\* The str fields rendered as NAME = '<literal>': <<class, field, NAME>>.
StrLiterals ==
    {<<"Table", "comment", "COMMENT">>,
     <<"Table", "default_ddl_collation", "DEFAULT_DDL_COLLATION">>,
     <<"Stage", "comment", "COMMENT">>,
     <<"Stream", "comment", "COMMENT">>,
     <<"Task", "comment", "COMMENT">>,
     <<"Task", "config", "CONFIG">>,
     <<"Task", "finalize", "FINALIZE">>,
     <<"CopyInto", "pattern", "PATTERN">>,
     <<"CsvOptions", "record_delimiter", "RECORD_DELIMITER">>,
     <<"CsvOptions", "field_delimiter", "FIELD_DELIMITER">>,
     <<"CsvOptions", "escape", "ESCAPE">>,
     <<"CsvOptions", "field_optionally_enclosed_by", "FIELD_OPTIONALLY_ENCLOSED_BY">>}

\* The rendered text holds, behind `before`, the literal a quoting utility makes of v.
Emitted(before, v) ==
    \E literal \in {sql_quote_string(v), sql_quote_comment(v)} :
        Contains(rendered, before \o literal)

\* C15: in a rendered statement the literal of every comment, URL, delimiter and
\* tag value v taken from the caller is what a quoting utility returns for v
\* (sql_quote_string, or sql_quote_comment), so that a single quote inside v is
\* escaped; the name of the entity stands in the statement as the caller gave it.
C15_LiteralsQuoted ==
    rendered # NoSql =>
        LET self == Deep(entity.attrs, heap)
        IN  /\ \A s \in StrLiterals :
                  (s[1] = entity.cls /\ Truthy(self[s[2]])) =>
                      Emitted(<<s[3], " = ">>, self[s[2]].v)
            /\ (entity.cls = "Stage" /\ Truthy(self.stage_params)) =>
                  (Truthy(self.stage_params.v.attrs.url) =>
                      Emitted(<<"URL", " = ">>, self.stage_params.v.attrs.url.v))
            /\ entity.cls \in {"Table", "Stage", "Stream", "Task"} =>
                  /\ \A i \in 1..Len(self.tags.v) :
                        Emitted(self.tags.v[i][1] \o <<" = ">>, self.tags.v[i][2])
                  /\ Contains(rendered, <<" ">> \o self.name.v)

\* The builders whose build() checks required fields.
CheckingBuilders ==
    {"TableBuilder", "TaskBuilder", "PutBuilder", "CopyIntoBuilder", "StreamBuilder",
     "StageBuilder"}

\* The required fields of the builder in hand that are missing, None or empty,
\* by their place in the builder's check order.
MissingFields ==
    {i \in 1..Len(BuildChecks(cls)) : ~Truthy(Deep(builder, heap)[BuildChecks(cls)[i][1]])}

\* C16: build() of a Table, Task, Put, CopyInto, Stream or Stage builder raises
\* if and only if a required field is missing; the error is the one of the first
\* missing field in the check order and no entity is returned; otherwise build()
\* returns an entity of the builder's class whose fields have the builder's values.
C16_RaisesIffMissing ==
    [][(build /\ cls \in CheckingBuilders) =>
          IF MissingFields # {}
          THEN /\ failure' = BuildChecks(cls)[CHOOSE i \in MissingFields :
                                                 \A j \in MissingFields : i <= j][3]
               /\ entity' = entity
          ELSE /\ failure' = ""
               /\ entity'.cls = EntityClass(cls)
               /\ \A f \in DOMAIN entity'.attrs :
                     Deep(entity'.attrs, heap')[f] = Deep(builder, heap)[f]]_vars

\* C17: with_parallel(p) raises if and only if p is outside [1, 99], and a call
\* that raises leaves the builder's parallel value as it was; the Put that build()
\* returns has parallel unset or within [1, 99].
C17_ParallelInRange ==
    [][/\ with_parallel =>
             LET p == calls'[Len(calls')][2].v
             IN  /\ (failure' # "") <=> (p < 1 \/ p > 99)
                 /\ (p < 1 \/ p > 99) => builder'.parallel = builder.parallel
       /\ entity'.cls = "Put" =>
             \/ ~IsSet(entity'.attrs.parallel)
             \/ entity'.attrs.parallel.v \in 1..99]_vars

\* with_parallel(99) returned, then with_parallel(0) or with_parallel(100) raised:
\* the builder still holds 99.
C17_Witness ==
    /\ cls = "PutBuilder"
    /\ failure = "Parallel value must be between 1 and 99"
    /\ builder.parallel = Num(99)

\* The fragments of CopyIntoOptions in their fixed order, with the setter behind
\* each: <<NAME, setter>>.
CopyIntoOptionsOrder ==
    << <<"RETURN_FAILED_ONLY", "with_return_failed_only">>,
       <<"ON_ERROR", "with_on_error">>,
       <<"SIZE_LIMIT", "with_size_limit">>,
       <<"PURGE", "with_purge">>,
       <<"MATCH_BY_COLUMN_NAME", "with_match_by_column_name">>,
       <<"ENFORCE_LENGTH", "with_enforce_length">>,
       <<"TRUNCATECOLUMNS", "with_truncate_columns">>,
       <<"FORCE", "with_force">> >>

\* The value of an option as the statement shows it.
OptionText(value) ==
    CASE value.t = "bool" -> <<"TRUE">>
      [] value.t = "int" -> str_int(value.v)
      [] OTHER -> <<value.v>>

\* The text of a set of setter calls, no setter twice: a fragment for every option
\* set to a true, non-zero or enum value, in the fixed order.
TextOfCalls(S) ==
    LET IsOn(fragment) == \E call \in S : call[1] = fragment[2] /\ Truthy(call[2])
        on == SelectSeq(CopyIntoOptionsOrder, IsOn)
    IN  join(<<" ">>,
             [i \in 1..Len(on) |->
                 <<on[i][1], " = ">>
                 \o OptionText((CHOOSE call \in S : call[1] = on[i][2])[2])])

\* The calls made on the builder, as a set.
CallSet == {calls[i] : i \in 1..Len(calls)}

\* C18: the text of a CopyIntoOptions built after setter calls on different
\* options depends on the set of the calls alone, not on their order: it is the
\* fragments of the options set, in the order RETURN_FAILED_ONLY, ON_ERROR,
\* SIZE_LIMIT, PURGE, MATCH_BY_COLUMN_NAME, ENFORCE_LENGTH, TRUNCATECOLUMNS, FORCE.
C18_OrderOfCallsIrrelevant ==
    (/\ Rendered("CopyIntoOptions")
     /\ entity.attrs = Built(cls, builder, heap)
     /\ \A i, j \in 1..Len(calls) : calls[i][1] = calls[j][1] => i = j)
        => rendered = TextOfCalls(CallSet)

\* with_purge(True) was called before with_on_error(SKIP_FILE): ON_ERROR is
\* rendered before PURGE.
C18_Witness ==
    /\ calls = << <<"with_purge", Bool(TRUE)>>, <<"with_on_error", Enum("SKIP_FILE")>> >>
    /\ rendered = <<"ON_ERROR", " = ", "SKIP_FILE", " ", "PURGE", " = ", "TRUE">>

\* The clauses of a column definition in their fixed order: <<keyword, field>>.
ColumnClauses ==
    << <<"NOT NULL", "nullable">>,
       <<"DEFAULT", "default">>,
       <<"IDENTITY", "identity">>,
       <<"PRIMARY KEY", "primary_key">>,
       <<"UNIQUE", "unique">>,
       <<"REFERENCES", "foreign_key">>,
       <<"COMMENT", "comment">>,
       <<"COLLATE", "collate">> >>

\* A field of a Column holds something else than its default: a column that is
\* not nullable, a flag that is set, a text that is given and not empty.
NonDefault(self, field) ==
    CASE field = "nullable" -> ~self.nullable.v
      [] self[field].t = "bool" -> self[field].v
      [] OTHER -> Given(self[field])

\* C19: the text of a Column starts with its name and its type, and the clause
\* keywords in it are those of the fields that are not at their default (an empty
\* text counting as none), each once, in the order NOT NULL, DEFAULT, IDENTITY,
\* PRIMARY KEY, UNIQUE, REFERENCES, COMMENT, COLLATE; DEFAULT and REFERENCES are
\* followed by the field's text.
C19_ColumnClauses ==
    Rendered("Column") =>
        LET self == entity.attrs
            type == IF self.data_type.t = "enum" THEN <<self.data_type.v>> ELSE self.data_type.v
            begin == self.name.v \o <<" ">> \o type
            IsKeyword(atom) == \E i \in 1..Len(ColumnClauses) : ColumnClauses[i][1] = atom
            IsOn(clause) == NonDefault(self, clause[2])
            on == SelectSeq(ColumnClauses, IsOn)
        IN  /\ SubSeq(rendered, 1, Len(begin)) = begin
            /\ SelectSeq(rendered, IsKeyword) = [i \in 1..Len(on) |-> on[i][1]]
            /\ \A i \in 1..Len(on) :
                  on[i][2] \in {"default", "foreign_key"} =>
                      Contains(rendered, <<on[i][1], " ">> \o self[on[i][2]].v)

\* A Column with every field off its default was rendered, a primary key and
\* unique among them.
C19_Witness ==
    /\ Rendered("Column")
    /\ \A i \in 1..Len(ColumnClauses) : NonDefault(entity.attrs, ColumnClauses[i][2])

\* The fields of each Option class in the order the class declares them, with the
\* name of the fragment of each: <<field, NAME>>.
DeclaredOptions ==
    [AvroOptions |->
         << <<"compression", "COMPRESSION">>, <<"trim_space", "TRIM_SPACE">>,
            <<"replace_invalid_characters", "REPLACE_INVALID_CHARACTERS">>,
            <<"null_if", "NULL_IF">> >>,
     ParquetOptions |->
         << <<"compression", "COMPRESSION">>, <<"binary_as_text", "BINARY_AS_TEXT">>,
            <<"use_logical_type", "USE_LOGICAL_TYPE">>, <<"trim_space", "TRIM_SPACE">>,
            <<"replace_invalid_characters", "REPLACE_INVALID_CHARACTERS">>,
            <<"null_if", "NULL_IF">>, <<"use_vectorized_scanner", "USE_VECTORIZED_SCANNER">> >>,
     JsonOptions |->
         << <<"compression", "COMPRESSION">>, <<"date_format", "DATE_FORMAT">>,
            <<"time_format", "TIME_FORMAT">>, <<"timestamp_format", "TIMESTAMP_FORMAT">>,
            <<"binary_format", "BINARY_FORMAT">>, <<"trim_space", "TRIM_SPACE">>,
            <<"null_if", "NULL_IF">>, <<"file_extension", "FILE_EXTENSION">>,
            <<"enable_octal", "ENABLE_OCTAL">>, <<"allow_duplicate", "ALLOW_DUPLICATE">>,
            <<"strip_outer_array", "STRIP_OUTER_ARRAY">>,
            <<"strip_null_values", "STRIP_NULL_VALUES">>,
            <<"replace_invalid_characters", "REPLACE_INVALID_CHARACTERS">>,
            <<"ignore_utf8_errors", "IGNORE_UTF8_ERRORS">>,
            <<"skip_byte_order_mark", "SKIP_BYTE_ORDER_MARK">> >>,
     CsvOptions |->
         << <<"compression", "COMPRESSION">>, <<"record_delimiter", "RECORD_DELIMITER">>,
            <<"field_delimiter", "FIELD_DELIMITER">>, <<"file_extension", "FILE_EXTENSION">>,
            <<"parse_header", "PARSE_HEADER">>, <<"skip_header", "SKIP_HEADER">>,
            <<"skip_blank_lines", "SKIP_BLANK_LINES">>, <<"date_format", "DATE_FORMAT">>,
            <<"time_format", "TIME_FORMAT">>, <<"timestamp_format", "TIMESTAMP_FORMAT">>,
            <<"binary_format", "BINARY_FORMAT">>, <<"escape", "ESCAPE">>,
            <<"escape_unenclosed_field", "ESCAPE_UNENCLOSED_FIELD">>,
            <<"trim_space", "TRIM_SPACE">>,
            <<"field_optionally_enclosed_by", "FIELD_OPTIONALLY_ENCLOSED_BY">>,
            <<"null_if", "NULL_IF">>,
            <<"error_on_column_count_mismatch", "ERROR_ON_COLUMN_COUNT_MISMATCH">>,
            <<"replace_invalid_characters", "REPLACE_INVALID_CHARACTERS">>,
            <<"empty_field_as_null", "EMPTY_FIELD_AS_NULL">>,
            <<"skip_byte_order_mark", "SKIP_BYTE_ORDER_MARK">>, <<"encoding", "ENCODING">> >>,
     XmlOptions |->
         << <<"compression", "COMPRESSION">>, <<"ignore_utf8_errors", "IGNORE_UTF8_ERRORS">>,
            <<"preserve_space", "PRESERVE_SPACE">>,
            <<"strip_outer_element", "STRIP_OUTER_ELEMENT">>,
            <<"disable_snowflake_data", "DISABLE_SNOWFLAKE_DATA">>,
            <<"disable_auto_convert", "DISABLE_AUTO_CONVERT">>,
            <<"replace_invalid_characters", "REPLACE_INVALID_CHARACTERS">>,
            <<"skip_byte_order_mark", "SKIP_BYTE_ORDER_MARK">> >>,
     OrcOptions |->
         << <<"trim_space", "TRIM_SPACE">>,
            <<"replace_invalid_characters", "REPLACE_INVALID_CHARACTERS">>,
            <<"null_if", "NULL_IF">> >>]

\* The <FORMAT> of each Option class.
OptionFormat ==
    [AvroOptions |-> "AVRO", ParquetOptions |-> "PARQUET", JsonOptions |-> "JSON",
     CsvOptions |-> "CSV", XmlOptions |-> "XML", OrcOptions |-> "ORC"]

\* C20: the text of a file-format Option object starts with TYPE = <FORMAT>, and
\* the fragment names after it are those of the fields that are set (not None,
\* not empty), each once, in the order in which the class declares the fields.
C20_DeclaredOrder ==
    (rendered # NoSql /\ entity.cls \in DOMAIN DeclaredOptions) =>
        LET declared == DeclaredOptions[entity.cls]
            IsName(atom) == \E i \in 1..Len(declared) : declared[i][2] = atom
            IsOn(option) == Given(entity.attrs[option[1]])
            on == SelectSeq(declared, IsOn)
        IN  /\ SubSeq(rendered, 1, 3) = <<"TYPE", " = ", OptionFormat[entity.cls]>>
            /\ SelectSeq(rendered, IsName) = [i \in 1..Len(on) |-> on[i][2]]

\* The words of the boolean fields an Option object renders: the file-format options,
\* the copy options and the directory-table options.
BooleanWords ==
    {"ALLOW_DUPLICATE", "BINARY_AS_TEXT", "DISABLE_AUTO_CONVERT", "DISABLE_SNOWFLAKE_DATA",
     "EMPTY_FIELD_AS_NULL", "ENABLE_OCTAL", "ERROR_ON_COLUMN_COUNT_MISMATCH", "PARSE_HEADER",
     "PRESERVE_SPACE", "REPLACE_INVALID_CHARACTERS", "SKIP_BLANK_LINES",
     "SKIP_BYTE_ORDER_MARK", "STRIP_NULL_VALUES", "STRIP_OUTER_ARRAY", "STRIP_OUTER_ELEMENT",
     "TRIM_SPACE", "USE_LOGICAL_TYPE", "USE_VECTORIZED_SCANNER",
     "RETURN_FAILED_ONLY", "PURGE", "ENFORCE_LENGTH", "TRUNCATECOLUMNS", "FORCE",
     "LOAD_UNCERTAIN_FILES", "ENABLE", "REFRESH_ON_CREATE"}

\* C21: in every rendered statement the value of a boolean field of an Option object
\* is the uppercase token TRUE or FALSE.
C21_BooleansUppercase ==
    rendered # NoSql =>
        \A i \in 1..(Len(rendered) - 2) :
            (rendered[i] \in BooleanWords /\ rendered[i + 1] = " = ") =>
                rendered[i + 2] \in {"TRUE", "FALSE"}

----------------------------------------------------------------------------
(* The escaping and quoting functions of utilities.py                      *)

\* Longest str passed to a function of utilities.py in the model.
MaxLen == 3

\* The strings passed: of the three characters the functions escape, and another one.
Strings == UNION {[1..n -> {"a", Quote, "\"", "\\"}] : n \in 0..MaxLen}

\* The caller has a str in hand.
InitStrings ==
    /\ InitForge
    /\ InitTM
    /\ InitEntity
    /\ utilFn = ""
    /\ utilArg \in Strings
    /\ utilRet = <<>>

\* sql_escape_string is called on the str and returns.
Call_sql_escape_string ==
    /\ utilFn' = "sql_escape_string"
    /\ utilRet' = sql_escape_string(utilArg)
    /\ UNCHANGED <<utilArg, forgeVars, tmVars, entVars>>

\* sql_quote_string is called on the str and returns.
Call_sql_quote_string ==
    /\ utilFn' = "sql_quote_string"
    /\ utilRet' = sql_quote_string(utilArg)
    /\ UNCHANGED <<utilArg, forgeVars, tmVars, entVars>>

\* sql_escape_comment is called on the str and returns.
Call_sql_escape_comment ==
    /\ utilFn' = "sql_escape_comment"
    /\ utilRet' = sql_escape_comment(utilArg)
    /\ UNCHANGED <<utilArg, forgeVars, tmVars, entVars>>

\* sql_quote_comment is called on the str and returns.
Call_sql_quote_comment ==
    /\ utilFn' = "sql_quote_comment"
    /\ utilRet' = sql_quote_comment(utilArg)
    /\ UNCHANGED <<utilArg, forgeVars, tmVars, entVars>>

NextUtilities ==
    \/ Call_sql_escape_string
    \/ Call_sql_quote_string
    \/ Call_sql_escape_comment
    \/ Call_sql_quote_comment

SpecUtilities == InitStrings /\ [][NextUtilities]_vars

----------------------------------------------------------------------------
(* Properties of the escaping and quoting functions                        *)

\* How many of the characters of s before position i are in the set S.
Before(s, i, S) == Cardinality({j \in 1..(i - 1) : s[j] \in S})

\* C22: sql_quote_string(s) is s between two single quotes, with every single quote,
\* double quote and backslash of s standing twice and every other character once,
\* all in the order of s.
C22_QuoteDoublesOnce ==
    utilFn = "sql_quote_string" =>
        LET Special == {Quote, "\"", "\\"}
            at(i) == 1 + i + Before(utilArg, i, Special)
        IN  /\ Len(utilRet) = Len(utilArg) + 2 + Before(utilArg, Len(utilArg) + 1, Special)
            /\ utilRet[1] = Quote
            /\ utilRet[Len(utilRet)] = Quote
            /\ \A i \in 1..Len(utilArg) :
                  /\ utilRet[at(i)] = utilArg[i]
                  /\ utilArg[i] \in Special => utilRet[at(i) + 1] = utilArg[i]

\* C22 witness: a str holding a backslash, a single quote and a double quote was quoted.
C22_Witness ==
    /\ utilFn = "sql_quote_string"
    /\ utilArg = <<"\\", Quote, "\"">>
    /\ Len(utilRet) = 8

\* C23: sql_escape_comment(s) is s with a backslash before every single quote and
\* every other character, double quotes and backslashes included, as it was; it is
\* not sql_escape_string(s) whenever s holds a character that either one escapes.
C23_CommentEscapesQuoteOnly ==
    utilFn = "sql_escape_comment" =>
        LET at(i) == i + Before(utilArg, i, {Quote})
        IN  /\ Len(utilRet) = Len(utilArg) + Before(utilArg, Len(utilArg) + 1, {Quote})
            /\ \A i \in 1..Len(utilArg) :
                  IF utilArg[i] = Quote
                  THEN utilRet[at(i)] = "\\" /\ utilRet[at(i) + 1] = Quote
                  ELSE utilRet[at(i)] = utilArg[i]
            /\ (\E i \in 1..Len(utilArg) : utilArg[i] \in {Quote, "\"", "\\"}) =>
                  utilRet # sql_escape_string(utilArg)

\* C23 witness: a comment holding a single quote, a double quote and a backslash was
\* escaped.
C23_Witness ==
    /\ utilFn = "sql_escape_comment"
    /\ utilArg = <<Quote, "\"", "\\">>
    /\ utilRet = <<"\\", Quote, "\"", "\\">>

----------------------------------------------------------------------------
(* Properties of TransactionManager: retry and nesting                     *)

\* A single transaction() call, made at level 0, has retried.
RetriedAlone ==
    /\ TmCalls = 1
    /\ Len(tmLog) >= 2
    /\ tmLog[2].ev = "BEGIN TRANSACTION"
    /\ TmEvents("RETRY") # {}

\* The last retry of the call.
LastRetry == CHOOSE k \in TmEvents("RETRY") : \A j \in TmEvents("RETRY") : j <= k

\* C24: after a retry of transaction() BEGIN TRANSACTION is issued again and the
\* scope is run again (the call does not end in the RuntimeError of a generator that
\* yielded twice); when the call then returns, its last statement is a COMMIT that
\* succeeded.
C24_RetryReopensTransaction ==
    RetriedAlone =>
        /\ LastRetry < Len(tmLog) => tmLog[LastRetry + 1].ev = "BEGIN TRANSACTION"
        /\ tmExc # RuntimeError
        /\ tmResult = "returned" =>
              /\ tmLog[Len(tmLog)].ev = "COMMIT"
              /\ tmLog[Len(tmLog)].err = NoErr

\* The statements of kind ev the step executed.
Issued(ev) == {k \in (Len(tmLog) + 1)..Len(tmLog') : tmLog'[k].ev = ev}

\* The statements of kind ev the step executed all returned.
Succeeded(ev) == \A k \in Issued(ev) : tmLog'[k].err = NoErr

\* C25: entering a transaction() scope executes BEGIN TRANSACTION when
\* _transaction_level is 0 and no BEGIN when it is > 0, and raises the level by one;
\* a normal exit executes COMMIT when the level is 1 and no COMMIT when it is > 1,
\* and lowers the level by one.
C25_OnlyOutermostBeginsAndCommits ==
    [][/\ TM_transaction_try =>
            /\ Issued("BEGIN TRANSACTION") # {} <=> _transaction_level = 0
            /\ Succeeded("BEGIN TRANSACTION") => _transaction_level' = _transaction_level + 1
       /\ TM_transaction_resume =>
            /\ Issued("COMMIT") # {} <=> _transaction_level = 1
            /\ Succeeded("COMMIT") => _transaction_level' = _transaction_level - 1]_vars

\* C25 witness: an inner scope was entered at level 1 and left normally at level 2,
\* and the one statement executed so far is the BEGIN TRANSACTION of the outer scope.
C25_Witness ==
    /\ TmCalls = 2
    /\ Len(tmStack) = 1
    /\ TmTop.pc = "yield"
    /\ _transaction_level = 1
    /\ tmLog = <<TmEvent("ENTER", NoErr, 1), TmEvent("BEGIN TRANSACTION", NoErr, 0),
                 TmEvent("ENTER", NoErr, 2)>>

----------------------------------------------------------------------------
(* Properties of Forge: teardown and the life of a connection              *)

\* The calls the step added to log l are the session abort and then the close, both
\* on connection c.
AbortThenClose(l, c) ==
    /\ Len(log') = Len(l) + 2
    /\ SubSeq(log', 1, Len(l)) = l
    /\ log'[Len(l) + 1].stmt = "ABORT_SESSION"
    /\ log'[Len(l) + 2].stmt = "CLOSE"
    /\ log'[Len(l) + 1].conn = c
    /\ log'[Len(l) + 2].conn = c

\* C26: _cleanup() on a Forge that holds a connection attempts the session abort and
\* then the close of that connection, whichever of the two fails; it raises nothing
\* (__exit__ returns, and inside get_connection the exception in flight stays the
\* one raised); afterwards the Forge holds no connection and no session id.
C26_CleanupBestEffort ==
    [][/\ (Forge_exit /\ _conn # 0) =>
            /\ AbortThenClose(<<>>, _conn)
            /\ result' = "returned"
            /\ exc' = 0
            /\ _conn' = 0
            /\ _session_id' = 0
            /\ connState'[_conn] = "closed"
       /\ (Forge_get_connection_except /\ _conn # 0) =>
            /\ AbortThenClose(log, _conn)
            /\ exc' = exc
            /\ _conn' = 0
            /\ _session_id' = 0
            /\ connState'[_conn] = "closed"]_vars

\* C26 witness: __exit__ tore down a Forge that held a connection; the session abort
\* failed, and so did the close that followed it.
C26_Witness ==
    /\ op = "_cleanup"
    /\ result = "returned"
    /\ Len(log) = 2
    /\ log[1].stmt = "ABORT_SESSION"
    /\ ~log[1].ok
    /\ log[2].stmt = "CLOSE"
    /\ ~log[2].ok
    /\ _conn = 0
    /\ _session_id = 0

\* C27: during WorkflowBuilder.execute no statement (the SQL of a step, BEGIN, COMMIT,
\* ROLLBACK, or commit() and rollback() of the connection) is issued on a connection
\* on which close() has been called before.
C27_NoStatementAfterClose ==
    op = "execute" =>
        \A j, k \in 1..Len(log) :
            (j < k /\ log[j].stmt = "CLOSE" /\ log[k].conn = log[j].conn) =>
                log[k].stmt \notin {"SQL", "BEGIN", "COMMIT", "ROLLBACK"}

\* C28: _transaction_level is never negative, and it is 0 whenever no transaction()
\* scope is active.
C28_LevelBalanced ==
    /\ _transaction_level >= 0
    /\ tmStack = <<>> => _transaction_level = 0

\* The word that starts the fragment of each option of CopyIntoOptions, by its setter.
OptionWord ==
    [with_return_failed_only |-> "RETURN_FAILED_ONLY", with_on_error |-> "ON_ERROR",
     with_size_limit |-> "SIZE_LIMIT", with_purge |-> "PURGE",
     with_match_by_column_name |-> "MATCH_BY_COLUMN_NAME",
     with_enforce_length |-> "ENFORCE_LENGTH", with_truncate_columns |-> "TRUNCATECOLUMNS",
     with_force |-> "FORCE", with_load_uncertain_files |-> "LOAD_UNCERTAIN_FILES",
     with_file_processor |-> "FILE_PROCESSOR", with_include_metadata |-> "INCLUDE_METADATA"]

\* The argument of the last call of a setter made on the builder.
LastArg(setter) ==
    calls[CHOOSE i \in 1..Len(calls) :
              /\ calls[i][1] = setter
              /\ \A j \in 1..Len(calls) : calls[j][1] = setter => j <= i][2]

\* C29: for every setter with_X(v) of CopyIntoOptionsBuilder called before build(),
\* field X of the CopyIntoOptions that build() returns is v, and the text of that
\* object holds the fragment of X when v is a true, non-zero, non-empty value.
C29_SettersRoundTrip ==
    [][(build /\ cls = "CopyIntoOptionsBuilder") =>
          \A s \in Setters[cls] :
              (\E i \in 1..Len(calls) : calls[i][1] = s[1]) =>
                  /\ entity'.attrs[s[2]].t = LastArg(s[1]).t
                  /\ entity'.attrs[s[2]].v = LastArg(s[1]).v
                  /\ Truthy(LastArg(s[1])) =>
                        OptionWord[s[1]] \in Atoms(CopyIntoOptions_to_sql(entity'.attrs))]_vars

\* C30: no step of WorkflowBuilder.execute, from the call to its return or raise,
\* changes the step queue, and an execute() called on a builder that has executed
\* before submits the statements of the same queue, in the same order.
C30_ExecuteLeavesQueue ==
    [][op' = "execute" =>
          /\ steps' = steps
          /\ Len(Submitted') <= Len(steps)
          /\ \A k \in 1..Len(Submitted') : Submitted'[k].sql = steps[k].step_type]_vars

\* C30 witness: execute() returned with two steps queued and both submitted in order,
\* on a Forge that already held the connection of an earlier operation when
\* execute() was called.
C30_Witness ==
    /\ op = "execute"
    /\ result = "returned"
    /\ Len(steps) = 2
    /\ Len(Submitted) = 2
    /\ log[1].stmt = "BEGIN"
    /\ Calls("CONNECT") = {}

============================================================================
